---------------------------- MODULE Spec2Model ----------------------------
(***************************************************************************)
(* Leader-side Thread Network Data manager                                 *)
(* (src/core/thread/network_data_leader_ftd.cpp).                          *)
(*                                                                         *)
(* The registry is the Leader's TLV buffer.  It is kept as the sequence of *)
(* its top-level TLVs, each with the sequence of its sub-TLVs and each     *)
(* sub-TLV with the sequence of its entries, in buffer order; the number   *)
(* of bytes every TLV occupies is computed from the wire layout, so that   *)
(* the capacity checks of the code are the checks of the model.            *)
(***************************************************************************)
EXTENDS Integers, Sequences, FiniteSets, TLC

(***************************************************************************)
(* Program constants                                                       *)
(***************************************************************************)
kMaxSize == 254
kMinId == 1
kMaxId == 15
kMinServiceId == 0
kMaxServiceId == 15
kUnallocated == 0
kInUse == 1
kReuseDelay == 300
kMaxNetDataSyncWait == 60000
kTlvHeaderSize == 2
kPrefixTlvSize == 4
kContextTlvSize == 4
kHasRouteEntrySize == 3
kBorderRouterEntrySize == 4
kServerTlvSize == 4
kThreadEnterpriseNumber == 44970
kUint8 == 256
kCompressFlag == 16
kUint16 == 65536
kHalfUint16 == 32768

NoError == "None"
ErrNoBufs == "NoBufs"
ErrDrop == "Drop"
ErrNotFound == "NotFound"
ErrParse == "Parse"
ErrNoRoute == "NoRoute"

(***************************************************************************)
(* TLV constructors.  Every top-level TLV and every sub-TLV is a record of *)
(* one shape, so that they can be compared and kept in one sequence.       *)
(***************************************************************************)
Entry(rloc, flags) == [rloc |-> rloc, flags |-> flags]

HasRouteTlv(stable, entries) ==
    [type |-> "HasRoute", stable |-> stable, entries |-> entries,
     compress |-> FALSE, cid |-> 0, rloc |-> 0, dlen |-> 0]

BorderRouterTlv(stable, entries) ==
    [type |-> "BorderRouter", stable |-> stable, entries |-> entries,
     compress |-> FALSE, cid |-> 0, rloc |-> 0, dlen |-> 0]

ContextTlv(stable, compress, cid) ==
    [type |-> "Context", stable |-> stable, entries |-> <<>>,
     compress |-> compress, cid |-> cid, rloc |-> 0, dlen |-> 0]

ServerTlv(stable, rloc, dlen) ==
    [type |-> "Server", stable |-> stable, entries |-> <<>>,
     compress |-> FALSE, cid |-> 0, rloc |-> rloc, dlen |-> dlen]

\* A MeshCoP TLV of the Commissioning Data or of a request: its type, the
\* length and (abstractly) the content of its value, whether it has the
\* extended form, and whether its value runs past the end of the payload.
MeshCoPTlv(type, dlen, val, extended, truncated) ==
    [type |-> type, dlen |-> dlen, val |-> val,
     extended |-> extended, truncated |-> truncated]

\* A prefix is keyed by its length in bits and its bits; a service by its
\* enterprise number and its service data (length and content).
PrefixKey(len, bits) == [len |-> len, bits |-> bits, ent |-> 0]
ServiceKey(ent, len, bits) == [len |-> len, bits |-> bits, ent |-> ent]

PrefixTlv(stable, key, subs) ==
    [type |-> "Prefix", stable |-> stable, key |-> key, id |-> 0, subs |-> subs]

ServiceTlv(stable, key, id, subs) ==
    [type |-> "Service", stable |-> stable, key |-> key, id |-> id, subs |-> subs]

CommissioningDataTlv(subs) ==
    [type |-> "CommissioningData", stable |-> FALSE,
     key |-> PrefixKey(0, 0), id |-> 0, subs |-> subs]

(***************************************************************************)
(* Sizes in bytes                                                          *)
(***************************************************************************)
RECURSIVE SumSeq(_)
SumSeq(s) == IF s = <<>> THEN 0 ELSE Head(s) + SumSeq(Tail(s))

BitVectorBytes(bits) == (bits + 7) \div 8

SubTlvSize(sub) ==
    CASE sub.type = "HasRoute" ->
             kTlvHeaderSize + Len(sub.entries) * kHasRouteEntrySize
      [] sub.type = "BorderRouter" ->
             kTlvHeaderSize + Len(sub.entries) * kBorderRouterEntrySize
      [] sub.type = "Context" -> kContextTlvSize
      [] sub.type = "Server" -> kServerTlvSize + sub.dlen
      [] OTHER -> kTlvHeaderSize + sub.dlen

SubTlvsSize(subs) == SumSeq([i \in 1..Len(subs) |-> SubTlvSize(subs[i])])

PrefixCalculateSize(len) == kPrefixTlvSize + BitVectorBytes(len)

ServiceCalculateSize(ent, len) ==
    kTlvHeaderSize + 1 + (IF ent = kThreadEnterpriseNumber THEN 0 ELSE 4) + 1 + len

TlvHeadSize(tlv) ==
    CASE tlv.type = "Prefix" -> PrefixCalculateSize(tlv.key.len)
      [] tlv.type = "Service" -> ServiceCalculateSize(tlv.key.ent, tlv.key.len)
      [] OTHER -> kTlvHeaderSize

TlvSize(tlv) == TlvHeadSize(tlv) + SubTlvsSize(tlv.subs)

GetLength(tlvs) == SumSeq([i \in 1..Len(tlvs) |-> TlvSize(tlvs[i])])

CanInsert(tlvs, size) == GetLength(tlvs) + size <= kMaxSize

(***************************************************************************)
(* The bytes of the registry.  They matter to a reader that walks the      *)
(* buffer up to an end it took before a removal: MutableNetworkData::Remove *)
(* moves the bytes behind the removed ones down and leaves the bytes past  *)
(* the new end as they are.                                                *)
(***************************************************************************)
\* NetworkDataTlv::Type
TypeCode(type) ==
    CASE type = "HasRoute" -> 0
      [] type = "Prefix" -> 1
      [] type = "BorderRouter" -> 2
      [] type = "Context" -> 3
      [] type = "CommissioningData" -> 4
      [] type = "Service" -> 5
      [] type = "Server" -> 6

RECURSIVE Flatten(_)
Flatten(ss) == IF ss = <<>> THEN <<>> ELSE Head(ss) \o Flatten(Tail(ss))

\* n bytes of a prefix or of service or server data; the first holds bits.
DataBytes(n, bits) == [k \in 1..n |-> IF k = 1 THEN bits % kUint8 ELSE 0]

\* A sub-TLV of a prefix of length len, or of a service: the type with the
\* stable flag in its lowest bit, the length of the value, the value.  A
\* Has Route entry takes three bytes and a Border Router entry four; a
\* Context TLV holds the compress flag and the context id in one byte, then
\* its length.
SubTlvBytes(sub, len) ==
    << 2 * TypeCode(sub.type) + (IF sub.stable THEN 1 ELSE 0),
       SubTlvSize(sub) - kTlvHeaderSize >>
        \o (CASE sub.type \in {"HasRoute", "BorderRouter"} ->
                     Flatten([k \in 1..Len(sub.entries) |->
                         << sub.entries[k].rloc \div kUint8,
                            sub.entries[k].rloc % kUint8, sub.entries[k].flags >>
                             \o (IF sub.type = "HasRoute" THEN <<>> ELSE <<0>>)])
              [] sub.type = "Context" ->
                     << (IF sub.compress THEN kCompressFlag ELSE 0) + sub.cid, len >>
              [] sub.type = "Server" ->
                     << sub.rloc \div kUint8, sub.rloc % kUint8 >>
                         \o DataBytes(sub.dlen, 0))

\* A top-level TLV.  A Prefix TLV holds the domain id, the prefix length and
\* the prefix; a Service TLV the T flag (128) with the service id, the
\* enterprise number unless T is set, and the service data with its length;
\* the Commissioning Data TLV its MeshCoP TLVs (type, length, value).
TlvBytes(tlv) ==
    << 2 * TypeCode(tlv.type) + (IF tlv.stable THEN 1 ELSE 0),
       TlvSize(tlv) - kTlvHeaderSize >>
        \o (CASE tlv.type = "Prefix" ->
                     << 0, tlv.key.len >>
                         \o DataBytes(BitVectorBytes(tlv.key.len), tlv.key.bits)
              [] tlv.type = "Service" ->
                     (IF tlv.key.ent = kThreadEnterpriseNumber
                      THEN << 128 + tlv.id >>
                      ELSE << tlv.id, 0, 0, tlv.key.ent \div kUint8,
                              tlv.key.ent % kUint8 >>)
                         \o << tlv.key.len >> \o DataBytes(tlv.key.len, tlv.key.bits)
              [] OTHER -> <<>>)
        \o Flatten([j \in 1..Len(tlv.subs) |->
                        IF tlv.type = "CommissioningData"
                        THEN << CASE tlv.subs[j].type = "SteeringData" -> 8
                                     [] tlv.subs[j].type = "BorderAgentLocator" -> 9
                                     [] tlv.subs[j].type = "CommissionerSessionId" -> 11
                                     [] tlv.subs[j].type = "JoinerUdpPort" -> 18
                                     [] OTHER -> 127,
                                   tlv.subs[j].dlen >>
                                 \o DataBytes(tlv.subs[j].dlen, tlv.subs[j].val)
                        ELSE SubTlvBytes(tlv.subs[j], tlv.key.len)])

\* NetworkData::GetBytes
GetBytes(tlvs) == Flatten([i \in 1..Len(tlvs) |-> TlvBytes(tlvs[i])])

\* MutableNetworkData::Remove of size bytes, as seen by a reader that holds
\* an old end of the buffer (W.iterating): the bytes between the new end and
\* the old one are the last size bytes the registry had, then those that
\* were there already.
RemoveBytes(W, size) ==
    IF W.iterating
    THEN [W EXCEPT !.stale = SubSeq(GetBytes(W.tlvs), GetLength(W.tlvs) - size + 1,
                                    GetLength(W.tlvs)) \o @]
    ELSE W


(***************************************************************************)
(* Lookups in a TLV sequence                                               *)
(***************************************************************************)
RemoveAt(s, i) == SubSeq(s, 1, i - 1) \o SubSeq(s, i + 1, Len(s))

\* Index of the first top-level TLV of the given type and key; 0 is nullptr.
FindTlv(tlvs, type, key) ==
    IF \E i \in 1..Len(tlvs) : tlvs[i].type = type /\ tlvs[i].key = key
    THEN CHOOSE i \in 1..Len(tlvs) :
             /\ tlvs[i].type = type /\ tlvs[i].key = key
             /\ \A j \in 1..(i - 1) : ~(tlvs[j].type = type /\ tlvs[j].key = key)
    ELSE 0

FindPrefix(tlvs, key) == FindTlv(tlvs, "Prefix", key)

FindService(tlvs, key) == FindTlv(tlvs, "Service", key)

FindServiceById(tlvs, id) ==
    IF \E i \in 1..Len(tlvs) : tlvs[i].type = "Service" /\ tlvs[i].id = id
    THEN CHOOSE i \in 1..Len(tlvs) :
             /\ tlvs[i].type = "Service" /\ tlvs[i].id = id
             /\ \A j \in 1..(i - 1) : ~(tlvs[j].type = "Service" /\ tlvs[j].id = id)
    ELSE 0

\* Index of the first sub-TLV of the given type at or after index from.
FindSubTlvFrom(subs, type, from) ==
    IF \E i \in from..Len(subs) : subs[i].type = type
    THEN CHOOSE i \in from..Len(subs) :
             /\ subs[i].type = type
             /\ \A j \in from..(i - 1) : subs[j].type # type
    ELSE 0

FindSubTlv(subs, type) == FindSubTlvFrom(subs, type, 1)

\* Index of the first sub-TLV of the given type and stable flag.
FindSubTlvStable(subs, type, stable) ==
    IF \E i \in 1..Len(subs) : subs[i].type = type /\ subs[i].stable = stable
    THEN CHOOSE i \in 1..Len(subs) :
             /\ subs[i].type = type /\ subs[i].stable = stable
             /\ \A j \in 1..(i - 1) : ~(subs[j].type = type /\ subs[j].stable = stable)
    ELSE 0

(***************************************************************************)
(* RLOC16                                                                  *)
(***************************************************************************)
RouterIdFromRloc16(rloc) == rloc \div 1024

RouterIdMatch(a, b) == RouterIdFromRloc16(a) = RouterIdFromRloc16(b)

kMatchModeRloc16 == "Rloc16"
kMatchModeRouterId == "RouterId"

\* RlocMatch that compares the router ids in both modes (a faulty variant:
\* C26 fails on it).
RlocMatchRouterId(first, second, mode) == RouterIdMatch(first, second)

RlocMatch(first, second, mode) ==
    IF mode = kMatchModeRloc16 THEN first = second ELSE RouterIdMatch(first, second)

(***************************************************************************)
(* The Leader object as a record: the operations below take the record and *)
(* give the record after the call.                                         *)
(*   tlvs, version, stableVersion   the registry and its version counters  *)
(*   ctx                            ContextIds::mRemoveTimes, by id        *)
(*   timer                          Leader::mTimer                         *)
(*   clone                          mIsClone                               *)
(*   now                            TimerMilli::GetNow() during the call   *)
(*   changed, stableChanged         the ChangedFlags of the call           *)
(*   err                            the error of the call                  *)
(*   signals, full                  Notifier signals raised by the call    *)
(*   notified                       what the Notifier found when signalled *)
(***************************************************************************)
SetErr(W, e) == [W EXCEPT !.err = e]

\* ChangedFlags::Update
FlagsUpdate(W, stable) ==
    [W EXCEPT !.changed = TRUE, !.stableChanged = (@ \/ stable)]

\* ChangedFlags::ChangedFlags
FlagsClear(W) ==
    [W EXCEPT !.changed = FALSE, !.stableChanged = FALSE, !.err = NoError]

(***************************************************************************)
(* Time (32-bit milliseconds, compared by signed distance) and the timer   *)
(***************************************************************************)
\* A 32-bit value is the pair of its high and low 16-bit halves.
U32(n) == <<n \div kUint16, n % kUint16>>

\* (t + d) mod 2^32, for a 32-bit t and a number d.
TimeAdd(t, d) ==
    LET lo == t[2] + (d % kUint16)
    IN <<(t[1] + (d \div kUint16) + (lo \div kUint16)) % kUint16, lo % kUint16>>

\* (a - b) mod 2^32
TimeDiff(a, b) ==
    <<(a[1] - b[1] - (IF a[2] < b[2] THEN 1 ELSE 0)) % kUint16,
      (a[2] - b[2]) % kUint16>>

\* Time::operator<: the distance from b to a, as a signed number, is negative.
TimeLess(a, b) == TimeDiff(a, b)[1] >= kHalfUint16

TimeGeq(a, b) == ~TimeLess(a, b)

TimeMin(a, b) == IF TimeLess(b, a) THEN b ELSE a

GetDistantFuture(t) == <<(t[1] + kHalfUint16) % kUint16, t[2]>>

SecToMsec(s) == s * 1000

TimerStopped == [running |-> FALSE, fire |-> U32(0)]

TimerFireAt(t) == [running |-> TRUE, fire |-> t]

TimerFireAtIfEarlier(timer, t) ==
    IF ~timer.running \/ TimeLess(t, timer.fire) THEN TimerFireAt(t) ELSE timer

(***************************************************************************)
(* Leader::ContextIds                                                      *)
(***************************************************************************)
ContextIdRange == kMinId..kMaxId

ContextIdsClear == [id \in ContextIdRange |-> U32(kUnallocated)]

IsUnallocated(ctx, id) == ctx[id] = U32(kUnallocated)

IsInUse(ctx, id) == ctx[id] = U32(kInUse)

IsPendingRemove(ctx, id) == ~IsUnallocated(ctx, id) /\ ~IsInUse(ctx, id)

MarkAsInUse(W, id) == [W EXCEPT !.ctx[id] = U32(kInUse)]

MarkAsUnallocated(W, id) == [W EXCEPT !.ctx[id] = U32(kUnallocated)]

\* GetUnallocatedId that gives the largest unallocated id (a faulty variant:
\* C10 fails on it).
GetUnallocatedIdLast(W) ==
    IF W.clone THEN [err |-> NoError, id |-> kMinId]
    ELSE IF \E id \in ContextIdRange : IsUnallocated(W.ctx, id)
    THEN [err |-> NoError,
          id |-> CHOOSE id \in ContextIdRange :
                     /\ IsUnallocated(W.ctx, id)
                     /\ \A j \in (id + 1)..kMaxId : ~IsUnallocated(W.ctx, j)]
    ELSE [err |-> ErrNotFound, id |-> 0]

\* The result: [err, id].
\* GetUnallocatedId that also gives an id that waits for its removal (a
\* faulty variant: C35 fails on it).
GetUnallocatedIdNotInUse(W) ==
    IF W.clone THEN [err |-> NoError, id |-> kMinId]
    ELSE IF \E id \in ContextIdRange : ~IsInUse(W.ctx, id)
    THEN [err |-> NoError,
          id |-> CHOOSE id \in ContextIdRange :
                     /\ ~IsInUse(W.ctx, id)
                     /\ \A j \in kMinId..(id - 1) : IsInUse(W.ctx, j)]
    ELSE [err |-> ErrNotFound, id |-> 0]

GetUnallocatedId(W) ==
    IF W.clone THEN [err |-> NoError, id |-> kMinId]
    ELSE IF \E id \in ContextIdRange : IsUnallocated(W.ctx, id)
    THEN [err |-> NoError,
          id |-> CHOOSE id \in ContextIdRange :
                     /\ IsUnallocated(W.ctx, id)
                     /\ \A j \in kMinId..(id - 1) : ~IsUnallocated(W.ctx, j)]
    ELSE [err |-> ErrNotFound, id |-> 0]

SkipUnallocatedOnly(time) ==
    IF time = U32(kUnallocated) THEN TimeAdd(time, 1) ELSE time

RECURSIVE SkipSentinels(_)
SkipSentinels(time) ==
    IF time = U32(kUnallocated) \/ time = U32(kInUse)
    THEN SkipSentinels(TimeAdd(time, 1))
    ELSE time

SetRemoveTime(W, id, time) == [W EXCEPT !.ctx[id] = SkipSentinels(time)]

\* ScheduleToRemove that sets the remove time and leaves the timer alone (a
\* faulty variant: C11 fails on it).
ScheduleToRemoveUnarmed(W, id) ==
    IF W.clone THEN W
    ELSE IF ~IsInUse(W.ctx, id) THEN W
    ELSE SetRemoveTime(W, id, TimeAdd(W.now, SecToMsec(kReuseDelay)))

\* ScheduleToRemove that does not look at the state of the id (a faulty
\* variant: C32 fails on it).
ScheduleToRemoveAlways(W, id) ==
    IF W.clone THEN W
    ELSE LET W1 == SetRemoveTime(W, id, TimeAdd(W.now, SecToMsec(kReuseDelay)))
         IN [W1 EXCEPT !.timer = TimerFireAtIfEarlier(W1.timer, W1.ctx[id])]

ScheduleToRemove(W, id) ==
    IF W.clone THEN W
    ELSE IF ~IsInUse(W.ctx, id) THEN W
    ELSE LET W1 == SetRemoveTime(W, id, TimeAdd(W.now, SecToMsec(kReuseDelay)))
         IN [W1 EXCEPT !.timer = TimerFireAtIfEarlier(W1.timer, W1.ctx[id])]

(***************************************************************************)
(* Versions                                                                *)
(***************************************************************************)
\* What the handlers of the Notifier find when they are signalled.
Notified(W) ==
    [tlvs |-> W.tlvs, ctx |-> W.ctx, version |-> W.version,
     stableVersion |-> W.stableVersion]

SignalNetDataChanged(W) == [W EXCEPT !.signals = @ + 1, !.notified = Notified(W)]

\* IncrementVersions(bool) that advances the version by two (a faulty
\* variant: C7 fails on it).
IncrementVersionsTwice(W, includeStable) ==
    IF W.clone THEN W
    ELSE SignalNetDataChanged(
             [W EXCEPT !.stableVersion =
                           IF includeStable THEN (@ + 1) % kUint8 ELSE @,
                       !.version = (@ + 2) % kUint8])

\* IncrementVersions(bool) that does not look at mIsClone (a faulty variant:
\* C21 fails on it).
IncrementVersionsOnClone(W, includeStable) ==
    SignalNetDataChanged(
        [W EXCEPT !.stableVersion = IF includeStable THEN (@ + 1) % kUint8 ELSE @,
                  !.version = (@ + 1) % kUint8])

IncrementVersionsStable(W, includeStable) ==
    IF W.clone THEN W
    ELSE SignalNetDataChanged(
             [W EXCEPT !.stableVersion =
                           IF includeStable THEN (@ + 1) % kUint8 ELSE @,
                       !.version = (@ + 1) % kUint8])

\* IncrementVersions(flags) that always includes the stable version (a
\* faulty variant: C8 fails on it).
IncrementVersionsBoth(W) ==
    IF W.changed THEN IncrementVersionsStable(W, TRUE) ELSE W

IncrementVersions(W) ==
    IF W.changed THEN IncrementVersionsStable(W, W.stableChanged) ELSE W

(***************************************************************************)
(* UpdateTlv: remove a Prefix or Service TLV that has no sub-TLV, else    *)
(* recompute its stable flag.                                              *)
(***************************************************************************)
\* UpdateTlv that keeps an empty TLV (a faulty variant: C3 fails on it).
UpdateTlvKeepEmpty(W, i) ==
    IF W.tlvs[i].subs = <<>> THEN W
    ELSE [W EXCEPT !.tlvs[i].stable =
              \E j \in 1..Len(W.tlvs[i].subs) : W.tlvs[i].subs[j].stable]

UpdateTlv(W, i) ==
    IF W.tlvs[i].subs = <<>>
    THEN [RemoveBytes(W, TlvSize(W.tlvs[i])) EXCEPT !.tlvs = RemoveAt(W.tlvs, i)]
    ELSE [W EXCEPT !.tlvs[i].stable =
              \E j \in 1..Len(W.tlvs[i].subs) : W.tlvs[i].subs[j].stable]

UpdatePrefix(W, i) == UpdateTlv(W, i)

UpdateService(W, i) == UpdateTlv(W, i)

(***************************************************************************)
(* Validation of a submitted Network Data                                  *)
(***************************************************************************)
\* PrefixTlv::IsValid: the prefix fits an IPv6 address.
PrefixIsValid(tlv) == tlv.key.len <= 128

RECURSIVE ValidatePrefixFrom(_, _, _, _)
\* found: the sub-TLV kinds met so far, as <<type, stable>> pairs.
ValidatePrefixFrom(subs, j, rloc, found) ==
    IF j > Len(subs)
    THEN (IF found # {} THEN NoError ELSE ErrParse)
    ELSE LET sub == subs[j] IN
         IF sub.type \in {"BorderRouter", "HasRoute"}
         THEN IF <<sub.type, sub.stable>> \in found THEN ErrParse
              ELSE IF Len(sub.entries) # 1 THEN ErrParse
              ELSE IF sub.entries[1].rloc # rloc THEN ErrParse
              ELSE ValidatePrefixFrom(subs, j + 1, rloc,
                                      found \cup {<<sub.type, sub.stable>>})
         ELSE ValidatePrefixFrom(subs, j + 1, rloc, found)

ValidatePrefix(prefix, rloc) == ValidatePrefixFrom(prefix.subs, 1, rloc, {})

RECURSIVE ValidateServiceFrom(_, _, _, _)
ValidateServiceFrom(subs, j, rloc, foundServer) ==
    IF j > Len(subs)
    THEN (IF foundServer THEN NoError ELSE ErrParse)
    ELSE LET sub == subs[j] IN
         IF sub.type = "Server"
         THEN IF foundServer THEN ErrParse
              ELSE IF sub.rloc # rloc THEN ErrParse
              ELSE ValidateServiceFrom(subs, j + 1, rloc, TRUE)
         ELSE ValidateServiceFrom(subs, j + 1, rloc, foundServer)

ValidateService(service, rloc) == ValidateServiceFrom(service.subs, 1, rloc, FALSE)

RECURSIVE ValidateFrom(_, _, _)
ValidateFrom(net, i, rloc) ==
    IF i > Len(net) THEN NoError
    ELSE LET cur == net[i]
             validatedSegment == SubSeq(net, 1, i - 1)
         IN CASE cur.type = "Prefix" ->
                     IF ~PrefixIsValid(cur) THEN ErrParse
                     ELSE IF FindPrefix(validatedSegment, cur.key) # 0 THEN ErrParse
                     ELSE IF ValidatePrefix(cur, rloc) # NoError THEN ErrParse
                     ELSE ValidateFrom(net, i + 1, rloc)
              [] cur.type = "Service" ->
                     IF FindService(validatedSegment, cur.key) # 0 THEN ErrParse
                     ELSE IF ValidateService(cur, rloc) # NoError THEN ErrParse
                     ELSE ValidateFrom(net, i + 1, rloc)
              [] OTHER -> ValidateFrom(net, i + 1, rloc)

Validate(net, rloc) == ValidateFrom(net, 1, rloc)

(***************************************************************************)
(* Matching entries                                                        *)
(***************************************************************************)
\* ContainsMatchingEntry(const HasRouteTlv *, ...) and (const BorderRouterTlv *, ...)
ContainsMatchingEntry(sub, entry) ==
    \E k \in 1..Len(sub.entries) : sub.entries[k] = entry

NullTlv == [type |-> "Null"]

\* ContainsMatchingEntry(const PrefixTlv *, bool aStable, ...): type is the
\* kind of sub-TLV the entry belongs to.
PrefixContainsMatchingEntry(prefix, type, stable, entry) ==
    IF prefix = NullTlv THEN FALSE
    ELSE LET j == FindSubTlvStable(prefix.subs, type, stable)
         IN IF j = 0 THEN FALSE ELSE ContainsMatchingEntry(prefix.subs[j], entry)

ContainsMatchingServer(service, server) ==
    IF service = NullTlv THEN FALSE
    ELSE \E j \in 1..Len(service.subs) :
             /\ service.subs[j].type = "Server"
             /\ service.subs[j].stable = server.stable
             /\ service.subs[j] = server

(***************************************************************************)
(* Adding the entries of a submission                                      *)
(***************************************************************************)
AppendSub(W, i, sub) == [W EXCEPT !.tlvs[i].subs = Append(@, sub)]

AppendEntry(W, i, j, entry) == [W EXCEPT !.tlvs[i].subs[j].entries = Append(@, entry)]

\* The end of AddHasRoute and of AddBorderRouter without the look for a
\* matching entry (a faulty variant: C24 fails on it).
AddEntryAlways(W, sub, i, entrySize) ==
    LET dst == FindSubTlvStable(W.tlvs[i].subs, sub.type, sub.stable)
    IN IF ~CanInsert(W.tlvs, entrySize) THEN SetErr(W, ErrNoBufs)
       ELSE FlagsUpdate(AppendEntry(W, i, dst, sub.entries[1]),
                        W.tlvs[i].subs[dst].stable)

\* The end of AddHasRoute and of AddBorderRouter: the destination sub-TLV
\* exists; the entry is appended unless it is there already.
AddEntry(W, sub, i, entrySize) ==
    LET dst == FindSubTlvStable(W.tlvs[i].subs, sub.type, sub.stable)
        entry == sub.entries[1]
    IN IF ContainsMatchingEntry(W.tlvs[i].subs[dst], entry) THEN W
       ELSE IF ~CanInsert(W.tlvs, entrySize) THEN SetErr(W, ErrNoBufs)
       ELSE FlagsUpdate(AppendEntry(W, i, dst, entry), W.tlvs[i].subs[dst].stable)

\* AddHasRoute without its CanInsert checks (a faulty variant: C1 fails on it).
AddHasRouteUnchecked(W, hasRoute, i) ==
    AddEntry(IF FindSubTlvStable(W.tlvs[i].subs, "HasRoute", hasRoute.stable) = 0
             THEN AppendSub(W, i, HasRouteTlv(hasRoute.stable, <<>>))
             ELSE W,
             hasRoute, i, 0)

\* i: the index of the destination Prefix TLV in the registry.
AddHasRoute(W, hasRoute, i) ==
    LET isNew == FindSubTlvStable(W.tlvs[i].subs, "HasRoute", hasRoute.stable) = 0
    IN IF isNew /\ ~CanInsert(W.tlvs, kTlvHeaderSize + kHasRouteEntrySize)
       THEN SetErr(W, ErrNoBufs)
       ELSE AddEntry(IF isNew
                     THEN AppendSub(W, i, HasRouteTlv(hasRoute.stable, <<>>))
                     ELSE W,
                     hasRoute, i, kHasRouteEntrySize)

\* The Context TLV of prefix i exists: it takes the stable flag of the
\* Border Router TLV when that is set, its compress flag is set and its id
\* is marked as in use.
\* The end of AddBorderRouter without MarkAsInUse (a faulty variant: C33
\* fails on it).
SetContextCompress(W, borderRouter, i) ==
    LET dstCtx == FindSubTlv(W.tlvs[i].subs, "Context")
    IN [W EXCEPT !.tlvs[i].subs[dstCtx].stable =
                     (IF borderRouter.stable THEN TRUE ELSE @),
                 !.tlvs[i].subs[dstCtx].compress = TRUE]

SetContextInUse(W, borderRouter, i) ==
    LET dstCtx == FindSubTlv(W.tlvs[i].subs, "Context")
    IN MarkAsInUse([W EXCEPT !.tlvs[i].subs[dstCtx].stable =
                                 (IF borderRouter.stable THEN TRUE ELSE @),
                             !.tlvs[i].subs[dstCtx].compress = TRUE],
                   W.tlvs[i].subs[dstCtx].cid)

\* AddBorderRouter once the Border Router TLV exists: the Context TLV.
AddBorderRouterContext(W, borderRouter, i, contextId) ==
    LET isNew == FindSubTlv(W.tlvs[i].subs, "Context") = 0
    IN IF isNew /\ ~CanInsert(W.tlvs, kBorderRouterEntrySize + kContextTlvSize)
       THEN SetErr(W, ErrNoBufs)
       ELSE AddEntry(SetContextInUse(
                         IF isNew
                         THEN AppendSub(W, i, ContextTlv(FALSE, FALSE, contextId))
                         ELSE W,
                         borderRouter, i),
                     borderRouter, i, kBorderRouterEntrySize)

AddBorderRouter(W, borderRouter, i) ==
    LET isNew == FindSubTlvStable(W.tlvs[i].subs, "BorderRouter",
                                  borderRouter.stable) = 0
        noContext == FindSubTlv(W.tlvs[i].subs, "Context") = 0
        got == IF noContext THEN GetUnallocatedId(W)
               ELSE [err |-> NoError, id |-> 0]
    IN IF got.err # NoError THEN SetErr(W, got.err)
       ELSE IF /\ isNew
               /\ ~CanInsert(W.tlvs, kTlvHeaderSize + kBorderRouterEntrySize
                                     + (IF noContext THEN kContextTlvSize ELSE 0))
       THEN SetErr(W, ErrNoBufs)
       ELSE AddBorderRouterContext(
                IF isNew
                THEN AppendSub(W, i, BorderRouterTlv(borderRouter.stable, <<>>))
                ELSE W,
                borderRouter, i, got.id)

\* The body of the loop of AddPrefix, for one sub-TLV of the submitted prefix.
AddPrefixSubTlv(W, sub, i) ==
    CASE sub.type = "HasRoute" -> AddHasRoute(W, sub, i)
      [] sub.type = "BorderRouter" -> AddBorderRouter(W, sub, i)
      [] OTHER -> W

RECURSIVE AddPrefixSubTlvs(_, _, _, _)
\* The loop of AddPrefix over the sub-TLVs of the submitted prefix, from j:
\* it ends at the first error.
AddPrefixSubTlvs(W, prefix, j, i) ==
    IF j > Len(prefix.subs) \/ W.err # NoError THEN W
    ELSE AddPrefixSubTlvs(AddPrefixSubTlv(W, prefix.subs[j], i), prefix, j + 1, i)

\* AddPrefix once the destination Prefix TLV exists.
AddPrefixInto(W, prefix) ==
    UpdatePrefix(AddPrefixSubTlvs(W, prefix, 1, FindPrefix(W.tlvs, prefix.key)),
                 FindPrefix(W.tlvs, prefix.key))

\* AddPrefix that never looks for the prefix (a faulty variant: C2 fails on it).
AddPrefixAlwaysNew(W, prefix) ==
    IF ~CanInsert(W.tlvs, PrefixCalculateSize(prefix.key.len))
    THEN SetErr(W, ErrNoBufs)
    ELSE UpdatePrefix(
             AddPrefixSubTlvs([W EXCEPT !.tlvs =
                                   Append(@, PrefixTlv(FALSE, prefix.key, <<>>))],
                              prefix, 1, Len(W.tlvs) + 1),
             Len(W.tlvs) + 1)

AddPrefix(W, prefix) ==
    LET isNew == FindPrefix(W.tlvs, prefix.key) = 0
    IN IF isNew /\ ~CanInsert(W.tlvs, PrefixCalculateSize(prefix.key.len))
       THEN SetErr(W, ErrNoBufs)
       ELSE AddPrefixInto(IF isNew
                          THEN [W EXCEPT !.tlvs =
                                    Append(@, PrefixTlv(FALSE, prefix.key, <<>>))]
                          ELSE W,
                          prefix)

\* The result: [err, id].
\* AllocateServiceId that gives kMinServiceId, as on a clone (a faulty
\* variant: C34 fails on it).
AllocateServiceIdOfClone(W) == [err |-> NoError, id |-> kMinServiceId]

AllocateServiceId(W) ==
    IF W.clone THEN [err |-> NoError, id |-> kMinServiceId]
    ELSE IF \E id \in kMinServiceId..kMaxServiceId : FindServiceById(W.tlvs, id) = 0
    THEN [err |-> NoError,
          id |-> CHOOSE id \in kMinServiceId..kMaxServiceId :
                     /\ FindServiceById(W.tlvs, id) = 0
                     /\ \A j \in kMinServiceId..(id - 1) : FindServiceById(W.tlvs, j) # 0]
    ELSE [err |-> ErrNotFound, id |-> 0]

AddServer(W, server, i) ==
    IF ContainsMatchingServer(W.tlvs[i], server) THEN W
    ELSE IF ~CanInsert(W.tlvs, SubTlvSize(server)) THEN SetErr(W, ErrNoBufs)
    ELSE FlagsUpdate(AppendSub(W, i, ServerTlv(server.stable, server.rloc, server.dlen)),
                     server.stable)

\* AddService once the destination Service TLV exists.
AddServiceInto(W, service) ==
    UpdateService(AddServer(W, service.subs[FindSubTlv(service.subs, "Server")],
                            FindService(W.tlvs, service.key)),
                  FindService(W.tlvs, service.key))

AddService(W, service) ==
    LET isNew == FindService(W.tlvs, service.key) = 0
        got == IF isNew THEN AllocateServiceId(W) ELSE [err |-> NoError, id |-> 0]
    IN IF got.err # NoError THEN SetErr(W, got.err)
       ELSE IF /\ isNew
               /\ ~CanInsert(W.tlvs, ServiceCalculateSize(service.key.ent, service.key.len))
       THEN SetErr(W, ErrNoBufs)
       ELSE AddServiceInto(IF isNew
                           THEN [W EXCEPT !.tlvs =
                                     Append(@, ServiceTlv(FALSE, service.key, got.id, <<>>))]
                           ELSE W,
                           service)

(***************************************************************************)
(* Removing the entries of an RLOC16                                       *)
(***************************************************************************)
RECURSIVE RemoveRlocInEntries(_, _, _, _, _, _, _)
\* The loop of RemoveRlocInHasRoute and of RemoveRlocInBorderRouter over the
\* entries of sub-TLV j of prefix i, from entry k.
RemoveRlocInEntries(W, i, j, k, rloc, mode, excludePrefix) ==
    LET sub == W.tlvs[i].subs[j] IN
    IF k > Len(sub.entries) THEN W
    ELSE IF /\ RlocMatch(sub.entries[k].rloc, rloc, mode)
            /\ ~PrefixContainsMatchingEntry(excludePrefix, sub.type, sub.stable,
                                            sub.entries[k])
         THEN RemoveRlocInEntries(
                  FlagsUpdate([RemoveBytes(W, IF sub.type = "HasRoute" THEN kHasRouteEntrySize
                                                  ELSE kBorderRouterEntrySize)
                                   EXCEPT !.tlvs[i].subs[j].entries = RemoveAt(@, k)],
                              sub.stable),
                  i, j, k, rloc, mode, excludePrefix)
         ELSE RemoveRlocInEntries(W, i, j, k + 1, rloc, mode, excludePrefix)

RemoveRlocInHasRoute(W, i, j, rloc, mode, excludePrefix) ==
    RemoveRlocInEntries(W, i, j, 1, rloc, mode, excludePrefix)

\* RemoveRlocInBorderRouter that excludes no entry (a faulty variant: C5
\* fails on it).
RemoveRlocInBorderRouterAll(W, i, j, rloc, mode, excludePrefix) ==
    RemoveRlocInEntries(W, i, j, 1, rloc, mode, NullTlv)

RemoveRlocInBorderRouter(W, i, j, rloc, mode, excludePrefix) ==
    RemoveRlocInEntries(W, i, j, 1, rloc, mode, excludePrefix)

\* The body of the loop of RemoveRlocInPrefix for sub-TLV j.
RemoveRlocInSubTlv(W, i, j, rloc, mode, excludePrefix) ==
    CASE W.tlvs[i].subs[j].type = "HasRoute" ->
             RemoveRlocInHasRoute(W, i, j, rloc, mode, excludePrefix)
      [] W.tlvs[i].subs[j].type = "BorderRouter" ->
             RemoveRlocInBorderRouter(W, i, j, rloc, mode, excludePrefix)
      [] OTHER -> W

\* An empty sub-TLV is kept (a faulty variant: C6 fails on it).
KeepSubTlvIfEmpty(W, i, j) == W

\* A Has Route or Border Router sub-TLV left with no entry is removed.
RemoveSubTlvIfEmpty(W, i, j) ==
    IF /\ W.tlvs[i].subs[j].type \in {"HasRoute", "BorderRouter"}
       /\ W.tlvs[i].subs[j].entries = <<>>
    THEN [RemoveBytes(W, kTlvHeaderSize) EXCEPT !.tlvs[i].subs = RemoveAt(@, j)]
    ELSE W

RECURSIVE RemoveRlocInPrefixSubTlvs(_, _, _, _, _, _)
\* The end of the loop body: n is the number of sub-TLVs before sub-TLV j
\* was handled; the loop stays at j when the sub-TLV was removed.
RemoveRlocInPrefixNext(W, n, i, j, rloc, mode, excludePrefix) ==
    RemoveRlocInPrefixSubTlvs(W, i, IF Len(W.tlvs[i].subs) < n THEN j ELSE j + 1,
                              rloc, mode, excludePrefix)

\* The loop of RemoveRlocInPrefix over the sub-TLVs of prefix i, from j.
RemoveRlocInPrefixSubTlvs(W, i, j, rloc, mode, excludePrefix) ==
    IF j > Len(W.tlvs[i].subs) THEN W
    ELSE RemoveRlocInPrefixNext(
             RemoveSubTlvIfEmpty(RemoveRlocInSubTlv(W, i, j, rloc, mode, excludePrefix),
                                 i, j),
             Len(W.tlvs[i].subs), i, j, rloc, mode, excludePrefix)

\* The end of RemoveRlocInPrefix with the compress flag left as it is (a
\* faulty variant: C4 fails on it).
UpdateContextKeepCompress(W, i) ==
    LET context == FindSubTlv(W.tlvs[i].subs, "Context")
    IN IF context = 0 THEN W
       ELSE IF FindSubTlv(W.tlvs[i].subs, "BorderRouter") = 0
       THEN ScheduleToRemove(W, W.tlvs[i].subs[context].cid)
       ELSE MarkAsInUse(W, W.tlvs[i].subs[context].cid)

\* The end of RemoveRlocInPrefix: the Context TLV of prefix i follows the
\* Border Router sub-TLVs left.
UpdateContext(W, i) ==
    LET context == FindSubTlv(W.tlvs[i].subs, "Context")
    IN IF context = 0 THEN W
       ELSE IF FindSubTlv(W.tlvs[i].subs, "BorderRouter") = 0
       THEN ScheduleToRemove([W EXCEPT !.tlvs[i].subs[context].compress = FALSE],
                             W.tlvs[i].subs[context].cid)
       ELSE MarkAsInUse([W EXCEPT !.tlvs[i].subs[context].compress = TRUE],
                        W.tlvs[i].subs[context].cid)

RemoveRlocInPrefix(W, i, rloc, mode, excludePrefix) ==
    UpdateContext(RemoveRlocInPrefixSubTlvs(W, i, 1, rloc, mode, excludePrefix), i)

RECURSIVE RemoveRlocInServiceFrom(_, _, _, _, _, _)
\* The loop of RemoveRlocInService over the sub-TLVs of service i, from start.
RemoveRlocInServiceFrom(W, i, start, rloc, mode, excludeService) ==
    LET server == FindSubTlvFrom(W.tlvs[i].subs, "Server", start) IN
    IF server = 0 THEN W
    ELSE IF /\ RlocMatch(W.tlvs[i].subs[server].rloc, rloc, mode)
            /\ ~ContainsMatchingServer(excludeService, W.tlvs[i].subs[server])
         THEN RemoveRlocInServiceFrom(
                  FlagsUpdate([RemoveBytes(W, SubTlvSize(W.tlvs[i].subs[server]))
                                   EXCEPT !.tlvs[i].subs = RemoveAt(@, server)],
                              W.tlvs[i].subs[server].stable),
                  i, start, rloc, mode, excludeService)
         ELSE RemoveRlocInServiceFrom(W, i, server + 1, rloc, mode, excludeService)

\* RemoveRlocInService that removes no Server TLV (a faulty variant: C31
\* fails on it).
RemoveRlocInServiceNone(W, i, rloc, mode, excludeService) == W

RemoveRlocInService(W, i, rloc, mode, excludeService) ==
    RemoveRlocInServiceFrom(W, i, 1, rloc, mode, excludeService)

\* The TLV of the excluded Network Data with the key of tlv, or NullTlv.
ExcludeTlv(exclude, tlv) ==
    LET x == FindTlv(exclude, tlv.type, tlv.key)
    IN IF x = 0 THEN NullTlv ELSE exclude[x]

\* The body of the loop of RemoveRloc for the TLV at cur.
RemoveRlocInTlv(W, cur, rloc, mode, exclude) ==
    CASE W.tlvs[cur].type = "Prefix" ->
             UpdatePrefix(RemoveRlocInPrefix(W, cur, rloc, mode,
                                             ExcludeTlv(exclude, W.tlvs[cur])),
                          cur)
      [] W.tlvs[cur].type = "Service" ->
             UpdateService(RemoveRlocInService(W, cur, rloc, mode,
                                               ExcludeTlv(exclude, W.tlvs[cur])),
                           cur)
      [] OTHER -> W

RECURSIVE RemoveRlocFrom(_, _, _, _, _)
\* The end of the loop body that always moves on to the next TLV (a faulty
\* variant: C27 fails on it).
RemoveRlocNextAlways(W, n, cur, rloc, mode, exclude) ==
    RemoveRlocFrom(W, cur + 1, rloc, mode, exclude)

\* The end of the loop body: n is the number of TLVs before the TLV at cur
\* was handled; the loop stays at cur when UpdateTlv removed the TLV.
RemoveRlocNext(W, n, cur, rloc, mode, exclude) ==
    RemoveRlocFrom(W, IF Len(W.tlvs) < n THEN cur ELSE cur + 1, rloc, mode, exclude)

\* The loop of RemoveRloc over the top-level TLVs, from cur.
RemoveRlocFrom(W, cur, rloc, mode, exclude) ==
    IF cur > Len(W.tlvs) THEN W
    ELSE RemoveRlocNext(RemoveRlocInTlv(W, cur, rloc, mode, exclude),
                        Len(W.tlvs), cur, rloc, mode, exclude)

RemoveRloc(W, rloc, mode, exclude) == RemoveRlocFrom(W, 1, rloc, mode, exclude)

RemoveBorderRouter(W, rloc, mode) ==
    IncrementVersions(RemoveRloc(FlagsClear(W), rloc, mode, <<>>))

(***************************************************************************)
(* Registration                                                            *)
(***************************************************************************)
\* The body of the loop of RegisterNetworkData for one submitted TLV.
RegisterTlv(W, tlv) ==
    CASE tlv.type = "Prefix" -> AddPrefix(W, tlv)
      [] tlv.type = "Service" -> AddService(W, tlv)
      [] OTHER -> W

RECURSIVE RegisterTlvsFrom(_, _, _)
\* The loop of RegisterNetworkData over the submitted TLVs, from cur: it
\* ends at the first error.
RegisterTlvsFrom(W, net, cur) ==
    IF cur > Len(net) \/ W.err # NoError THEN W
    ELSE RegisterTlvsFrom(RegisterTlv(W, net[cur]), net, cur + 1)

SignalNetworkDataFull(W) == [W EXCEPT !.full = TRUE]

\* RegisterNetworkData that leaves the counters alone when it fails (a
\* faulty variant: C28 fails on it).
RegisterNetworkDataExitOnSuccess(W) ==
    IF W.err = ErrNoBufs THEN SignalNetworkDataFull(W)
    ELSE IncrementVersions(W)

\* RegisterNetworkData from its exit label.
RegisterNetworkDataExit(W) ==
    IF W.err = ErrNoBufs THEN SignalNetworkDataFull(IncrementVersions(W))
    ELSE IncrementVersions(W)

\* RegisterNetworkData that removes the entries of the device before it
\* validates the submission (a faulty variant: C12 fails on it).
RegisterEntriesSweepFirst(W, rloc, net, allocated) ==
    IF RouterIdFromRloc16(rloc) \notin allocated THEN SetErr(W, ErrNoRoute)
    ELSE IF Validate(net, rloc) # NoError
    THEN SetErr(RemoveRloc(W, rloc, kMatchModeRloc16, net), Validate(net, rloc))
    ELSE RegisterTlvsFrom(RemoveRloc(W, rloc, kMatchModeRloc16, net), net, 1)

\* RegisterNetworkData that adds the submitted entries and removes none (a
\* faulty variant: C25 fails on it).
RegisterEntriesNoSweep(W, rloc, net, allocated) ==
    IF RouterIdFromRloc16(rloc) \notin allocated THEN SetErr(W, ErrNoRoute)
    ELSE IF Validate(net, rloc) # NoError THEN SetErr(W, Validate(net, rloc))
    ELSE RegisterTlvsFrom(W, net, 1)

\* RegisterNetworkData up to its exit label.  allocated: the router ids
\* allocated in the router table.
RegisterEntries(W, rloc, net, allocated) ==
    IF RouterIdFromRloc16(rloc) \notin allocated THEN SetErr(W, ErrNoRoute)
    ELSE IF Validate(net, rloc) # NoError THEN SetErr(W, Validate(net, rloc))
    ELSE RegisterTlvsFrom(RemoveRloc(W, rloc, kMatchModeRloc16, net), net, 1)

\* RegisterNetworkData that advances the counters after the sweep too (a
\* faulty variant: C29 fails on it).
RegisterNetworkDataSweepSignalled(W, rloc, net, allocated) ==
    IF RouterIdFromRloc16(rloc) \notin allocated \/ Validate(net, rloc) # NoError
    THEN RegisterNetworkDataExit(RegisterEntries(FlagsClear(W), rloc, net, allocated))
    ELSE RegisterNetworkDataExit(
             RegisterTlvsFrom(
                 IncrementVersions(RemoveRloc(FlagsClear(W), rloc, kMatchModeRloc16, net)),
                 net, 1))

RegisterNetworkData(W, rloc, net, allocated) ==
    RegisterNetworkDataExit(RegisterEntries(FlagsClear(W), rloc, net, allocated))

(***************************************************************************)
(* Context removal and the timer                                           *)
(***************************************************************************)
RECURSIVE RemoveContextInPrefix(_, _, _, _)
\* RemoveContext(PrefixTlv &, uint8_t): the loop over the sub-TLVs of prefix i.
RemoveContextInPrefix(W, i, start, id) ==
    LET context == FindSubTlvFrom(W.tlvs[i].subs, "Context", start) IN
    IF context = 0 THEN W
    ELSE IF W.tlvs[i].subs[context].cid = id
         THEN RemoveContextInPrefix([W EXCEPT !.tlvs[i].subs = RemoveAt(@, context)],
                                    i, start, id)
         ELSE RemoveContextInPrefix(W, i, context + 1, id)

\* Index of the first Prefix TLV at or after start, or 0.
FindPrefixFrom(tlvs, start) ==
    IF \E i \in start..Len(tlvs) : tlvs[i].type = "Prefix"
    THEN CHOOSE i \in start..Len(tlvs) :
             /\ tlvs[i].type = "Prefix"
             /\ \A j \in start..(i - 1) : tlvs[j].type # "Prefix"
    ELSE 0

RECURSIVE RemoveContextFrom(_, _, _)
\* The end of the loop body: n is the number of TLVs before the prefix was
\* handled; the loop stays at the prefix's place when UpdatePrefix removed it.
RemoveContextNext(W, n, start, prefix, id) ==
    RemoveContextFrom(W, IF Len(W.tlvs) < n THEN start ELSE prefix + 1, id)

\* RemoveContext(uint8_t): the loop over the Prefix TLVs, from start.
RemoveContextFrom(W, start, id) ==
    IF FindPrefixFrom(W.tlvs, start) = 0 THEN W
    ELSE RemoveContextNext(
             UpdatePrefix(RemoveContextInPrefix(W, FindPrefixFrom(W.tlvs, start), 1, id),
                          FindPrefixFrom(W.tlvs, start)),
             Len(W.tlvs), start, FindPrefixFrom(W.tlvs, start), id)

RemoveContext(W, id) == IncrementVersionsStable(RemoveContextFrom(W, 1, id), TRUE)

RECURSIVE ContextIdsHandleTimerFrom(_, _, _)
\* The loop of ContextIds::HandleTimer over the ids, from id, and its end:
\* the timer is armed for the earliest remove time left.
ContextIdsHandleTimerFrom(W, id, nextTime) ==
    IF id > kMaxId
    THEN (IF nextTime # GetDistantFuture(W.now)
          THEN [W EXCEPT !.timer = TimerFireAt(nextTime)]
          ELSE W)
    ELSE IF IsUnallocated(W.ctx, id) \/ IsInUse(W.ctx, id)
    THEN ContextIdsHandleTimerFrom(W, id + 1, nextTime)
    ELSE IF TimeGeq(W.now, W.ctx[id])
    THEN ContextIdsHandleTimerFrom(RemoveContext(MarkAsUnallocated(W, id), id),
                                   id + 1, nextTime)
    ELSE ContextIdsHandleTimerFrom(W, id + 1, TimeMin(nextTime, W.ctx[id]))

\* ContextIds::HandleTimer that takes every remove time within the reuse
\* delay to have come (a faulty variant: C18 fails on it).
ContextIdsHandleTimerEarly(W) ==
    [ContextIdsHandleTimerFrom(
         [W EXCEPT !.now = TimeAdd(@, SecToMsec(kReuseDelay))], kMinId,
         GetDistantFuture(W.now)) EXCEPT !.now = W.now]

\* ContextIds::HandleTimer that does not arm the timer again (a faulty
\* variant: C19 fails on it).
ContextIdsHandleTimerOnce(W) ==
    [ContextIdsHandleTimerFrom(W, kMinId, GetDistantFuture(W.now))
        EXCEPT !.timer = W.timer]

ContextIdsHandleTimer(W) ==
    ContextIdsHandleTimerFrom(W, kMinId, GetDistantFuture(W.now))

(***************************************************************************)
(* Commissioning Data                                                      *)
(***************************************************************************)
FindCommissioningData(tlvs) ==
    IF \E i \in 1..Len(tlvs) : tlvs[i].type = "CommissioningData"
    THEN CHOOSE i \in 1..Len(tlvs) :
             /\ tlvs[i].type = "CommissioningData"
             /\ \A j \in 1..(i - 1) : tlvs[j].type # "CommissioningData"
    ELSE 0

\* The MeshCoP TLVs of the stored Commissioning Data; <<>> when there is none.
GetCommissioningData(tlvs) ==
    IF FindCommissioningData(tlvs) = 0 THEN <<>>
    ELSE tlvs[FindCommissioningData(tlvs)].subs

RemoveCommissioningData(W) ==
    IF FindCommissioningData(W.tlvs) = 0 THEN W
    ELSE [W EXCEPT !.tlvs = RemoveAt(@, FindCommissioningData(W.tlvs))]

\* LeaderBase::SetCommissioningData: value is the sequence of MeshCoP TLVs.
SetCommissioningData(W, value) ==
    LET W1 == RemoveCommissioningData(W)
        valueLength == SubTlvsSize(value)
    IN IF valueLength > 0 /\ valueLength > kMaxSize - kTlvHeaderSize
       THEN SetErr(W1, ErrNoBufs)
       ELSE IF valueLength > 0 /\ ~CanInsert(W1.tlvs, kTlvHeaderSize + valueLength)
       THEN SetErr(W1, ErrNoBufs)
       ELSE LET W2 == IF valueLength > 0
                      THEN [W1 EXCEPT !.tlvs = Append(@, CommissioningDataTlv(value))]
                      ELSE W1
            IN SignalNetDataChanged(
                   [W2 EXCEPT !.version = (@ + 1) % kUint8,
                              !.stableVersion = (@ + 1) % kUint8,
                              !.err = NoError])

kStateAccept == "Accept"
kStateReject == "Reject"

RECURSIVE CommissionerSetScan(_, _, _)
\* The first loop of HandleTmf<kUriCommissionerSet> over the request's TLVs.
\* acc: [ok, hasSessionId, hasValidTlv, sessionId].
CommissionerSetScan(req, cur, acc) ==
    IF cur > Len(req) THEN acc
    ELSE LET tlv == req[cur] IN
         IF tlv.extended \/ tlv.truncated THEN [acc EXCEPT !.ok = FALSE]
         ELSE CASE tlv.type \in {"JoinerUdpPort", "SteeringData"} ->
                       CommissionerSetScan(req, cur + 1, [acc EXCEPT !.hasValidTlv = TRUE])
                [] tlv.type = "BorderAgentLocator" -> [acc EXCEPT !.ok = FALSE]
                [] tlv.type = "CommissionerSessionId" ->
                       IF tlv.dlen < 2 THEN [acc EXCEPT !.ok = FALSE]
                       ELSE CommissionerSetScan(req, cur + 1,
                                [acc EXCEPT !.hasSessionId = TRUE, !.sessionId = tlv.val])
                [] OTHER -> CommissionerSetScan(req, cur + 1, acc)

RECURSIVE CommissionerSetMerge(_, _, _, _)
\* The second loop, over the stored Commissioning Data.  The result: [ok, tlvs].
CommissionerSetMerge(stored, cur, sessionId, tlvs) ==
    IF cur > Len(stored) THEN [ok |-> TRUE, tlvs |-> tlvs]
    ELSE LET tlv == stored[cur] IN
         CASE tlv.type = "CommissionerSessionId" ->
                  IF sessionId # tlv.val THEN [ok |-> FALSE, tlvs |-> tlvs]
                  ELSE CommissionerSetMerge(stored, cur + 1, sessionId, tlvs)
           [] tlv.type = "BorderAgentLocator" ->
                  IF SubTlvsSize(tlvs) + SubTlvSize(tlv) > kMaxSize
                  THEN [ok |-> FALSE, tlvs |-> tlvs]
                  ELSE CommissionerSetMerge(stored, cur + 1, sessionId, Append(tlvs, tlv))
           [] OTHER -> CommissionerSetMerge(stored, cur + 1, sessionId, tlvs)

SetReply(W, reply) == [W EXCEPT !.reply = reply]

\* HandleTmf<kUriCommissionerSet> that does not ask for a Joiner UDP Port or
\* Steering Data TLV (a faulty variant: C14 fails on it).
HandleCommissionerSetAnyTlv(W, req, isLeader, waitingForSync) ==
    LET scan == CommissionerSetScan(req, 1,
                    [ok |-> TRUE, hasSessionId |-> FALSE, hasValidTlv |-> FALSE,
                     sessionId |-> 0])
        merge == CommissionerSetMerge(GetCommissioningData(W.tlvs), 1,
                                      scan.sessionId, req)
    IN IF \/ ~(isLeader /\ ~waitingForSync)
          \/ SubTlvsSize(req) > kMaxSize
          \/ ~scan.ok \/ ~scan.hasSessionId
          \/ ~merge.ok
       THEN SetReply(W, IF isLeader THEN kStateReject ELSE "")
       ELSE SetReply(SetCommissioningData(W, merge.tlvs), kStateAccept)

\* HandleTmf<kUriCommissionerSet> that goes on when the session id is not
\* the stored one (a faulty variant: C15 fails on it).
HandleCommissionerSetAnySession(W, req, isLeader, waitingForSync) ==
    LET scan == CommissionerSetScan(req, 1,
                    [ok |-> TRUE, hasSessionId |-> FALSE, hasValidTlv |-> FALSE,
                     sessionId |-> 0])
        merge == CommissionerSetMerge(GetCommissioningData(W.tlvs), 1,
                                      scan.sessionId, req)
    IN IF \/ ~(isLeader /\ ~waitingForSync)
          \/ SubTlvsSize(req) > kMaxSize
          \/ ~scan.ok \/ ~scan.hasSessionId \/ ~scan.hasValidTlv
       THEN SetReply(W, IF isLeader THEN kStateReject ELSE "")
       ELSE SetReply(SetCommissioningData(W, merge.tlvs), kStateAccept)

\* HandleTmf<kUriCommissionerSet>: the response carries the state, and only
\* a leader responds.
HandleCommissionerSet(W, req, isLeader, waitingForSync) ==
    LET scan == CommissionerSetScan(req, 1,
                    [ok |-> TRUE, hasSessionId |-> FALSE, hasValidTlv |-> FALSE,
                     sessionId |-> 0])
        merge == CommissionerSetMerge(GetCommissioningData(W.tlvs), 1,
                                      scan.sessionId, req)
    IN IF \/ ~(isLeader /\ ~waitingForSync)
          \/ SubTlvsSize(req) > kMaxSize
          \/ ~scan.ok \/ ~scan.hasSessionId \/ ~scan.hasValidTlv
          \/ ~merge.ok
       THEN SetReply(W, IF isLeader THEN kStateReject ELSE "")
       ELSE SetReply(SetCommissioningData(W, merge.tlvs), kStateAccept)

kResponse == "Response"

\* The inner loop of SendCommissioningGetResponse: the first TLV of the
\* stored data, from cur on, that has the type; no TLV when none has it.
RECURSIVE AppendFirstOfType(_, _, _)
AppendFirstOfType(data, cur, type) ==
    IF cur > Len(data) THEN <<>>
    ELSE IF data[cur].type = type THEN <<data[cur]>>
    ELSE AppendFirstOfType(data, cur + 1, type)

\* The outer loop of SendCommissioningGetResponse over the type bytes of
\* the request's Get TLV, from index on.
RECURSIVE AppendRequestedTypes(_, _, _, _)
AppendRequestedTypes(data, types, index, aLength) ==
    IF index > aLength THEN <<>>
    ELSE AppendFirstOfType(data, 1, types[index])
             \o AppendRequestedTypes(data, types, index + 1, aLength)

\* SendCommissioningGetResponse that walks the stored data and keeps the
\* TLVs whose type was requested (a faulty variant: C17 fails on it).
SendCommissioningGetResponseStoredOrder(W, types, aLength) ==
    LET data == GetCommissioningData(W.tlvs)
        wanted == {types[k] : k \in 1..aLength}
    IN IF SubTlvsSize(data) = 0 THEN SetErr(W, ErrDrop)
       ELSE [W EXCEPT !.reply = kResponse,
                      !.payload = IF aLength = 0 THEN data
                                  ELSE SelectSeq(data, LAMBDA t : t.type \in wanted)]

\* Leader::SendCommissioningGetResponse: nothing is sent when there is no
\* Commissioning Data.
SendCommissioningGetResponse(W, types, aLength) ==
    LET data == GetCommissioningData(W.tlvs)
    IN IF SubTlvsSize(data) = 0 THEN SetErr(W, ErrDrop)
       ELSE [W EXCEPT !.reply = kResponse,
                      !.payload = IF aLength = 0 THEN data
                                  ELSE AppendRequestedTypes(data, types, 1, aLength)]

\* HandleTmf<kUriCommissionerGet>: types is the value of the request's Get
\* TLV, <<>> when the request has none; only a leader responds.
HandleCommissionerGet(W, types, isLeader, waitingForSync) ==
    LET length == IF isLeader /\ ~waitingForSync THEN Len(types) ELSE 0
    IN IF isLeader THEN SendCommissioningGetResponse(W, types, length) ELSE W

(***************************************************************************)
(* Leader::HandleNetworkDataRestoredAfterReset                             *)
(***************************************************************************)
\* NetworkData::GetNextServer: the RLOC16s of the Server sub-TLVs, in order.
RECURSIVE ServerRlocsFrom(_, _)
ServerRlocsFrom(tlvs, i) ==
    IF i > Len(tlvs) THEN <<>>
    ELSE (IF tlvs[i].type = "Service"
          THEN [j \in 1..Len(tlvs[i].subs) |-> tlvs[i].subs[j].rloc]
          ELSE <<>>) \o ServerRlocsFrom(tlvs, i + 1)

GetServers(tlvs) == ServerRlocsFrom(tlvs, 1)

\* The first loop without its restart: the entries of the first server of
\* an unallocated router id alone are removed (a faulty variant: C20 fails
\* on it).
RemoveUnallocatedServersOnce(W, allocated) ==
    LET servers == GetServers(W.tlvs)
        bad == {k \in 1..Len(servers) : RouterIdFromRloc16(servers[k]) \notin allocated}
    IN IF bad = {} THEN W
       ELSE RemoveRloc(W, servers[CHOOSE x \in bad : \A y \in bad : x <= y],
                       kMatchModeRouterId, <<>>)

RECURSIVE RemoveUnallocatedServers(_, _)
\* The first loop: it restarts after every RemoveRloc.
RemoveUnallocatedServers(W, allocated) ==
    LET servers == GetServers(W.tlvs)
        bad == {k \in 1..Len(servers) : RouterIdFromRloc16(servers[k]) \notin allocated}
    IN IF bad = {} THEN W
       ELSE LET k == CHOOSE x \in bad : \A y \in bad : x <= y
            IN RemoveUnallocatedServers(
                   RemoveRloc(W, servers[k], kMatchModeRouterId, <<>>), allocated)

\* The byte at offset p of the buffer b; the buffer holds zeroes behind the
\* bytes written to it.
ByteAt(b, p) == IF p < Len(b) THEN b[p + 1] ELSE 0

\* NetworkDataTlv::GetNext of the TLV at offset p.
GetNext(b, p) == p + kTlvHeaderSize + ByteAt(b, p + 1)

RECURSIVE Find(_, _, _, _)
\* NetworkDataTlv::Find: the offset of the first TLV of the type between
\* offsets p and end; -1 (for nullptr) when there is none or when a TLV on
\* the way does not fit before end.
Find(b, p, end, type) ==
    IF p >= end THEN -1
    ELSE IF p + kTlvHeaderSize > end \/ GetNext(b, p) > end THEN -1
    ELSE IF ByteAt(b, p) \div 2 = type THEN p
    ELSE Find(b, GetNext(b, p), end, type)

\* The body of the second loop for the Prefix TLV at offset prefix: its
\* sub-TLVs start behind the domain id, the prefix length and the prefix;
\* flags is the byte of the Context TLV with the compress flag and the id.
SyncContextId(W, b, prefix) ==
    LET context == Find(b, prefix + kPrefixTlvSize + BitVectorBytes(ByteAt(b, prefix + 3)),
                        GetNext(b, prefix), TypeCode("Context"))
        flags == ByteAt(b, context + 2)
    IN IF context < 0 THEN W
       ELSE IF (flags \div kCompressFlag) % 2 = 0
       THEN ScheduleToRemove(MarkAsInUse(W, flags % kCompressFlag),
                             flags % kCompressFlag)
       ELSE MarkAsInUse(W, flags % kCompressFlag)

RECURSIVE SyncContextIdsFrom(_, _, _, _)
\* The second loop: tlvIterator walks the Prefix TLVs of the buffer b from
\* offset start up to end, the end of the Network Data when
\* HandleNetworkDataRestoredAfterReset was entered.
SyncContextIdsFrom(W, b, start, end) ==
    LET prefix == Find(b, start, end, TypeCode("Prefix")) IN
    IF prefix < 0 THEN W
    ELSE SyncContextIdsFrom(SyncContextId(W, b, prefix), b, GetNext(b, prefix), end)

\* The second loop: the buffer holds the registry, then the bytes the
\* removals of the first loop left behind it.
SyncContextIds(W) ==
    SyncContextIdsFrom(W, GetBytes(W.tlvs) \o W.stale, 0,
                       GetLength(W.tlvs) + Len(W.stale))

\* tlvIterator is built first (W.iterating).
HandleNetworkDataRestoredAfterReset(W, allocated) ==
    SyncContextIds(
        IncrementVersions(
            RemoveUnallocatedServers(FlagsClear([W EXCEPT !.iterating = TRUE]),
                                     allocated)))

(***************************************************************************)
(* Inputs                                                                  *)
(***************************************************************************)
\* Bounds of the model: the number of clock ticks, the length of a tick in
\* milliseconds, the number of times the version may advance, and how far
\* from wrapping the version counters are at construction.
MaxTicks == 3
TickMsec == 150000
MaxBumps == 3
VersionsBeforeWrap == 2
StableVersionsBeforeWrap == 1

\* Leader::Reset draws both counters at random; these are the values drawn.
InitialVersion == kUint8 - VersionsBeforeWrap
InitialStableVersion == kUint8 - StableVersionsBeforeWrap

\* RLOC16s: RlocA and RlocC are a router and one of its children (router id
\* 1); RlocD is the router with id 3, which the router table does not hold.
Rloc16FromRouterId(id) == id * 1024
RlocA == Rloc16FromRouterId(1)
RlocC == Rloc16FromRouterId(1) + 1
RlocD == Rloc16FromRouterId(3)
kShortAddrInvalid == 65534

AllocatedRouterIds == {1, 2}

Prefix1 == PrefixKey(64, 1)
Prefix2 == PrefixKey(64, 2)
PrefixBad == PrefixKey(136, 3)
Service1 == ServiceKey(kThreadEnterpriseNumber, 1, 1)
\* A service whose TLV, with one server, takes 229 of the 254 bytes.
ServiceBig == ServiceKey(1, 217, 2)

\* Submitted TLVs, for a device with RLOC16 r.  The stable flag of a
\* submitted Prefix or Service TLV is not read by the Leader.
BrS(r, f) == BorderRouterTlv(TRUE, <<Entry(r, f)>>)
BrT(r, f) == BorderRouterTlv(FALSE, <<Entry(r, f)>>)
HrS(r, f) == HasRouteTlv(TRUE, <<Entry(r, f)>>)
HrT(r, f) == HasRouteTlv(FALSE, <<Entry(r, f)>>)
SrvS(r) == ServerTlv(TRUE, r, 0)
SrvT(r) == ServerTlv(FALSE, r, 0)

NetsOfA ==
    { <<>>,
      << PrefixTlv(TRUE, Prefix1, <<BrS(RlocA, 0)>>) >>,
      << PrefixTlv(FALSE, Prefix1, <<BrT(RlocA, 0)>>) >>,
      << PrefixTlv(TRUE, Prefix1, <<BrS(RlocA, 1)>>) >>,
      << PrefixTlv(TRUE, Prefix1, <<HrT(RlocA, 0), BrS(RlocA, 0)>>) >>,
      << PrefixTlv(TRUE, Prefix2, <<HrS(RlocA, 0)>>) >>,
      << ServiceTlv(TRUE, Service1, 0, <<SrvS(RlocA)>>) >>,
      << ServiceTlv(FALSE, ServiceBig, 0, <<SrvT(RlocA)>>),
         PrefixTlv(TRUE, Prefix1, <<HrT(RlocA, 0), BrS(RlocA, 0)>>) >> }

NetsOfC ==
    { <<>>,
      << PrefixTlv(FALSE, Prefix1, <<BrT(RlocC, 0)>>) >>,
      << PrefixTlv(TRUE, Prefix1, <<BrS(RlocC, 0)>>) >>,
      << PrefixTlv(TRUE, Prefix2, <<BrS(RlocC, 0)>>) >>,
      << ServiceTlv(TRUE, Service1, 0, <<SrvS(RlocC)>>) >> }

InvalidNetsOfA ==
    { << PrefixTlv(TRUE, Prefix1, <<BrS(RlocD, 0)>>) >>,
      << PrefixTlv(TRUE, Prefix1, <<ContextTlv(TRUE, TRUE, 1)>>) >>,
      << PrefixTlv(TRUE, Prefix1, <<BrS(RlocA, 0)>>),
         PrefixTlv(TRUE, Prefix1, <<HrS(RlocA, 0)>>) >>,
      << PrefixTlv(TRUE, Prefix1, <<BrS(RlocA, 0), BrS(RlocA, 1)>>) >>,
      << PrefixTlv(TRUE, Prefix1,
                   <<BorderRouterTlv(TRUE, <<Entry(RlocA, 0), Entry(RlocA, 1)>>)>>) >>,
      << PrefixTlv(TRUE, PrefixBad, <<BrS(RlocA, 0)>>) >>,
      << ServiceTlv(TRUE, Service1, 0, <<SrvS(RlocA), SrvT(RlocA)>>) >>,
      << ServiceTlv(TRUE, Service1, 0, <<SrvS(RlocD)>>) >>,
      << ServiceTlv(TRUE, Service1, 0, <<SrvS(RlocA)>>),
         ServiceTlv(TRUE, Service1, 0, <<SrvT(RlocA)>>) >> }

NoNetworkData == << [type |-> "NoThreadNetworkDataTlv"] >>

\* An n/sd message: whether the IID of the peer address is a routing
\* locator, what Tlv::Find<ThreadRloc16Tlv> returns, whether the Network
\* Data TLV is valid (ThreadNetworkDataTlv::IsValid), the RLOC16 of the
\* peer, the value of the Thread RLOC16 TLV (kShortAddrInvalid: none was
\* read) and the Network Data TLV (NoNetworkData: no such TLV).
ServerDataMessage(locator, rlocTlv, valid, peer, old, net) ==
    [locator |-> locator, rlocTlv |-> rlocTlv, valid |-> valid,
     peer |-> peer, old |-> old, net |-> net]

\* The n/sd requests of a device with a routing locator whose TLVs are well
\* formed.
ServerDataRequest(peer, old, net) ==
    ServerDataMessage(TRUE, IF old = kShortAddrInvalid THEN ErrNotFound ELSE NoError,
                      TRUE, peer, old, net)

\* The n/sd requests that are not well formed: the peer address is not a
\* routing locator, the Thread RLOC16 TLV does not parse, the Network Data
\* TLV is not valid (with and without a Thread RLOC16 TLV before it).
MalformedServerDataRequests ==
    { ServerDataMessage(FALSE, ErrNotFound, TRUE, RlocA, kShortAddrInvalid,
                        << PrefixTlv(TRUE, Prefix1, <<BrS(RlocA, 0)>>) >>),
      ServerDataMessage(TRUE, ErrParse, TRUE, RlocC, kShortAddrInvalid,
                        << PrefixTlv(TRUE, Prefix1, <<BrS(RlocC, 0)>>) >>),
      ServerDataMessage(TRUE, NoError, FALSE, RlocC, RlocA,
                        << PrefixTlv(TRUE, Prefix1, <<BrS(RlocC, 0)>>) >>),
      ServerDataMessage(TRUE, ErrNotFound, FALSE, RlocA, kShortAddrInvalid, <<>>) }

ServerDataRequests ==
    {ServerDataRequest(RlocA, kShortAddrInvalid, n) : n \in NetsOfA \cup InvalidNetsOfA}
    \cup {ServerDataRequest(RlocC, kShortAddrInvalid, n) : n \in NetsOfC}
    \cup {ServerDataRequest(RlocD, kShortAddrInvalid, n) :
              n \in {<<>>, << PrefixTlv(TRUE, Prefix1, <<BrS(RlocD, 0)>>) >>}}
    \cup {ServerDataRequest(RlocC, RlocA, n) :
              n \in {NoNetworkData, << PrefixTlv(TRUE, Prefix1, <<BrS(RlocC, 0)>>) >>}}
    \cup MalformedServerDataRequests

\* The c/cs requests and the Commissioning Data a commissioner petition
\* installs (MeshCoP::Leader calls SetCommissioningData).
SessionId(id) == MeshCoPTlv("CommissionerSessionId", 2, id, FALSE, FALSE)
SteeringData(val) == MeshCoPTlv("SteeringData", 1, val, FALSE, FALSE)
BorderAgentLocator(rloc) == MeshCoPTlv("BorderAgentLocator", 2, rloc, FALSE, FALSE)

CommissionerSetRequests ==
    { << SessionId(7), SteeringData(1) >>,
      << SessionId(8), SteeringData(1) >>,
      << SessionId(7), MeshCoPTlv("JoinerUdpPort", 2, 1000, FALSE, FALSE),
         MeshCoPTlv("Unknown", 3, 0, FALSE, FALSE) >>,
      << SessionId(7), MeshCoPTlv("SteeringData", 16, 3, FALSE, FALSE) >>,
      << SteeringData(1) >>,
      << SessionId(7) >>,
      << SessionId(7), SteeringData(1), BorderAgentLocator(RlocA) >>,
      << SessionId(7), SteeringData(1), SteeringData(2) >>,
      << SessionId(7), MeshCoPTlv("SteeringData", 1, 1, TRUE, FALSE) >>,
      << SessionId(7), MeshCoPTlv("SteeringData", 4, 1, FALSE, TRUE) >>,
      << MeshCoPTlv("CommissionerSessionId", 1, 7, FALSE, FALSE), SteeringData(1) >> }

PetitionData ==
    { << SessionId(7), BorderAgentLocator(RlocA) >> }

\* The values of the Get TLV of the c/cg requests: no TLV or an empty one,
\* one type, a type that is never stored, and a list with a repeated type
\* in another order than the stored one.
CommissionerGetRequests ==
    { <<>>,
      << "SteeringData" >>,
      << "BorderAgentLocator", "JoinerUdpPort", "CommissionerSessionId" >>,
      << "SteeringData", "NetworkName", "CommissionerSessionId", "SteeringData" >> }

\* The Network Data the network holds when the Leader restarts after a
\* reset: registries a Leader built while router 3 was still allocated.
RestoredNetworkData ==
    { <<>>,
      << PrefixTlv(TRUE, Prefix1,
             << BorderRouterTlv(TRUE, <<Entry(RlocD, 0), Entry(RlocA, 0)>>),
                ContextTlv(TRUE, TRUE, 1) >>),
         ServiceTlv(TRUE, Service1, 0, <<SrvS(RlocD)>>) >>,
      << PrefixTlv(TRUE, Prefix1,
             << BorderRouterTlv(TRUE, <<Entry(RlocD, 0)>>),
                ContextTlv(TRUE, TRUE, 2) >>),
         ServiceTlv(TRUE, Service1, 0, <<SrvS(RlocD), SrvS(RlocA)>>) >>,
      << PrefixTlv(FALSE, Prefix2,
             << HasRouteTlv(FALSE, <<Entry(RlocA, 0)>>),
                ContextTlv(FALSE, FALSE, 3) >>) >> }

\* TimerMilli::GetNow() when the Leader is constructed.
StartTime == TimeDiff(U32(0), U32(SecToMsec(kReuseDelay)))

kStartingAsLeader == "StartingAsLeader"
kRestoringLeaderRoleAfterReset == "RestoringLeaderRoleAfterReset"

(***************************************************************************)
(* The state                                                               *)
(***************************************************************************)
VARIABLES
    tlvs,           \* the registry: the TLVs of the Leader's Network Data
    version,        \* mVersion
    stableVersion,  \* mStableVersion
    ctx,            \* mContextIds.mRemoveTimes
    timer,          \* mTimer
    waiting,        \* mWaitingForNetDataSync
    role,           \* "constructed", then "leader" (Start) or "detached"
    now,            \* TimerMilli::GetNow()
    last            \* the call in progress: its inputs, the state it started
                    \* from and what it reported; Idle between calls

vars == <<tlvs, version, stableVersion, ctx, timer, waiting, role, now, last>>

\* The value of notified while the Notifier has not been signalled.
NotNotified == Notified([tlvs |-> <<>>, ctx |-> ContextIdsClear, version |-> 0,
                         stableVersion |-> 0])

\* The Leader object at the start of a call.
Self ==
    [tlvs |-> tlvs, version |-> version, stableVersion |-> stableVersion,
     ctx |-> ctx, timer |-> timer, clone |-> FALSE, now |-> now,
     changed |-> FALSE, stableChanged |-> FALSE, err |-> NoError,
     signals |-> 0, full |-> FALSE, reply |-> "", payload |-> <<>>,
     notified |-> NotNotified, iterating |-> FALSE, stale |-> <<>>]

\* The Leader object after a call becomes the state.
Commit(W) ==
    /\ tlvs' = W.tlvs
    /\ version' = W.version
    /\ stableVersion' = W.stableVersion
    /\ ctx' = W.ctx
    /\ timer' = W.timer

NoRequest == ServerDataRequest(kShortAddrInvalid, kShortAddrInvalid, NoNetworkData)

\* The record of a call: pre is the Leader object the call started from.
Last(op, req, W) ==
    [op |-> op, req |-> req, pre |-> Self, err |-> W.err, changed |-> W.changed,
     stableChanged |-> W.stableChanged, signals |-> W.signals, full |-> W.full,
     reply |-> W.reply, payload |-> W.payload, notified |-> W.notified]

\* A call ends: the Leader object becomes the state and the call is recorded.
Finish(op, req, W) == Commit(W) /\ last' = Last(op, req, W)

Idle ==
    [op |-> "Idle", req |-> NoRequest, pre |-> <<>>, err |-> NoError,
     changed |-> FALSE, stableChanged |-> FALSE, signals |-> 0, full |-> FALSE,
     reply |-> "", payload |-> <<>>, notified |-> NotNotified]

\* The number of times the version has advanced since construction.
Bumps == (version - InitialVersion) % kUint8

\* A new call starts when no call is in progress.
Ready == last.op = "Idle" /\ Bumps < MaxBumps

Init ==
    /\ tlvs = <<>>
    /\ version = InitialVersion
    /\ stableVersion = InitialStableVersion
    /\ ctx = ContextIdsClear
    /\ timer = TimerStopped
    /\ waiting = FALSE
    /\ role = "constructed"
    /\ now = StartTime
    /\ last = Idle

(***************************************************************************)
(* The check for the Network Data getting full                             *)
(***************************************************************************)
\* Leader leaderClone(GetInstance()), MarkAsClone and CopyNetworkData: a
\* new Leader object that holds a copy of the registry.  The timer the
\* clone's ContextIds reach through Get<Leader>() and the Notifier are
\* those of the instance.
LeaderClone(W) ==
    [FlagsClear(W) EXCEPT !.clone = TRUE, !.ctx = ContextIdsClear,
                          !.version = InitialVersion,
                          !.stableVersion = InitialStableVersion]

\* The clone after the removal and the registration are replayed on it.
ReplayOnClone(W, net, oldRloc16, rloc16, allocated) ==
    RegisterNetworkData(
        IF oldRloc16 # kShortAddrInvalid
        THEN RemoveBorderRouter(LeaderClone(W), oldRloc16, kMatchModeRloc16)
        ELSE LeaderClone(W),
        rloc16, net, allocated)

\* The Leader object of the instance once the clone is gone.
AfterClone(W, leaderClone) ==
    [W EXCEPT !.timer = leaderClone.timer, !.signals = leaderClone.signals,
              !.full = leaderClone.full, !.err = leaderClone.err]

\* Leader::CheckForNetDataGettingFull; rloc16 is Get<Mle::Mle>().GetRloc16().
CheckForNetDataGettingFull(W, net, oldRloc16, isLeader, rloc16, allocated) ==
    IF isLeader THEN W
    ELSE AfterClone(W, ReplayOnClone(W, net, oldRloc16, rloc16, allocated))

(***************************************************************************)
(* Operations                                                              *)
(***************************************************************************)
\* Leader::Start
Start(mode) ==
    /\ last.op = "Idle"
    /\ role = "constructed"
    /\ role' = "leader"
    /\ waiting' = (mode = kRestoringLeaderRoleAfterReset)
    /\ timer' = IF mode = kRestoringLeaderRoleAfterReset
                THEN TimerFireAt(TimeAdd(now, kMaxNetDataSyncWait))
                ELSE timer
    /\ UNCHANGED <<tlvs, version, stableVersion, ctx, now, last>>

\* HandleTmf<kUriServerData>: the entries of the Thread RLOC16 TLV's device
\* are removed, when the request holds that TLV.
RemoveOldRloc(W, req) ==
    IF req.rlocTlv = NoError
    THEN RemoveBorderRouter(W, req.old, kMatchModeRloc16)
    ELSE W

\* HandleTmf<kUriServerData>: the Network Data TLV is registered, when the
\* request holds one.
RegisterRequest(W, req) ==
    IF req.net # NoNetworkData
    THEN RegisterNetworkData(W, req.peer, req.net, AllocatedRouterIds)
    ELSE W

\* HandleTmf<kUriServerData>: the empty ACK is sent (SendEmptyAck succeeds).
SendEmptyAck(W) == SetReply(W, "Ack")

\* HandleTmf<kUriServerData> of a leader that does not wait: the handler
\* exits, without an answer, when the peer address is not a routing
\* locator, when the Thread RLOC16 TLV is there and cannot be read, and when
\* the Network Data TLV is there and is not valid.
HandleServerDataTlvs(W, req) ==
    IF ~req.locator THEN W
    ELSE IF req.rlocTlv \notin {NoError, ErrNotFound} THEN W
    ELSE IF req.net # NoNetworkData /\ ~req.valid THEN RemoveOldRloc(W, req)
    ELSE SendEmptyAck(RegisterRequest(RemoveOldRloc(W, req), req))

\* HandleTmf<kUriServerData> that does not look at mWaitingForNetDataSync (a
\* faulty variant: C13 fails on it).
HandleServerDataWhileWaiting(W, req, isLeader, waitingForSync) ==
    IF ~isLeader THEN W
    ELSE HandleServerDataTlvs(W, req)

\* HandleTmf<kUriServerData>
HandleServerData(W, req, isLeader, waitingForSync) ==
    IF ~(isLeader /\ ~waitingForSync) THEN W
    ELSE HandleServerDataTlvs(W, req)

ServerData(req) ==
    /\ Ready
    /\ role # "constructed"
    /\ Finish("ServerData", req, HandleServerData(Self, req, role = "leader", waiting))
    /\ UNCHANGED <<waiting, role, now>>

\* Leader::RemoveBorderRouter, called by the router table and by MLE.
RemoveBorderRouterCall(rloc, mode) ==
    /\ Ready
    /\ role = "leader"
    /\ Finish("RemoveBorderRouter", [rloc |-> rloc, mode |-> mode],
              RemoveBorderRouter(Self, rloc, mode))
    /\ UNCHANGED <<waiting, role, now>>

\* HandleTmf<kUriCommissionerSet>
CommissionerSet(req) ==
    /\ Ready
    /\ role # "constructed"
    /\ Finish("CommissionerSet", [tlvs |-> req],
              HandleCommissionerSet(Self, req, role = "leader", waiting))
    /\ UNCHANGED <<waiting, role, now>>

\* HandleTmf<kUriCommissionerGet>
CommissionerGet(types) ==
    /\ Ready
    /\ role # "constructed"
    /\ Finish("CommissionerGet", [types |-> types],
              HandleCommissionerGet(Self, types, role = "leader", waiting))
    /\ UNCHANGED <<waiting, role, now>>

\* A commissioner petition accepted by MeshCoP::Leader installs the
\* Commissioning Data of the new session.
Petition(data) ==
    /\ Ready
    /\ role = "leader" /\ ~waiting
    /\ Finish("Petition", [data |-> data], SetCommissioningData(Self, data))
    /\ UNCHANGED <<waiting, role, now>>

\* MLE receives the Network Data of the network while the Leader waits for
\* it: LeaderBase::SetNetworkData, then HandleNetworkDataRestoredAfterReset.
\* The version counters received are taken to be the current ones.
\* allocated: the router ids the router table holds at that time.
NetworkDataRestoredIn(data, allocated) ==
    /\ Ready
    /\ role = "leader" /\ waiting
    /\ waiting' = FALSE
    /\ Finish("NetworkDataRestored", [restored |-> data, allocated |-> allocated],
              HandleNetworkDataRestoredAfterReset([Self EXCEPT !.tlvs = data],
                                                  allocated))
    /\ UNCHANGED <<role, now>>

NetworkDataRestored(data) == NetworkDataRestoredIn(data, AllocatedRouterIds)

\* Leader::HandleTimer, when mTimer fires: the node gives up waiting for
\* the Network Data, or the context ids whose time has come are removed.
HandleTimerCall ==
    /\ timer.running /\ TimeGeq(now, timer.fire)
    /\ role' = IF waiting THEN "detached" ELSE role
    /\ Finish("HandleTimer", NoRequest,
              IF waiting
              THEN SetReply([Self EXCEPT !.timer = TimerStopped], "BecomeDetached")
              ELSE ContextIdsHandleTimer([Self EXCEPT !.timer = TimerStopped]))
    /\ UNCHANGED <<waiting, now>>

TimerFired == Ready /\ HandleTimerCall

\* The call in progress returns.
Return ==
    /\ last.op \notin {"Idle", "RestoreLoop"}
    /\ last' = Idle
    /\ UNCHANGED <<tlvs, version, stableVersion, ctx, timer, waiting, role, now>>

\* Time passes.  The clock is observed only while the timer is armed.
Tick ==
    /\ last.op = "Idle"
    /\ timer.running
    /\ TimeLess(now, TimeAdd(StartTime, MaxTicks * TickMsec))
    /\ now' = TimeAdd(now, TickMsec)
    /\ UNCHANGED <<tlvs, version, stableVersion, ctx, timer, waiting, role, last>>

Next ==
    \/ \E mode \in {kStartingAsLeader, kRestoringLeaderRoleAfterReset} : Start(mode)
    \/ \E req \in ServerDataRequests : ServerData(req)
    \/ \E rloc \in {RlocA, RlocC}, mode \in {kMatchModeRloc16, kMatchModeRouterId} :
           RemoveBorderRouterCall(rloc, mode)
    \/ \E req \in CommissionerSetRequests : CommissionerSet(req)
    \/ \E types \in CommissionerGetRequests : CommissionerGet(types)
    \/ \E data \in PetitionData : Petition(data)
    \/ \E data \in RestoredNetworkData : NetworkDataRestored(data)
    \/ TimerFired
    \/ Return
    \/ Tick

Spec == Init /\ [][Next]_vars

(***************************************************************************)
(* The Leader with a clock that does not stop while the timer is armed     *)
(***************************************************************************)
\* The n/sd requests of the devices that add and withdraw the Border Router
\* entries of two prefixes.
BorderRouterRequests ==
    {ServerDataRequest(RlocA, kShortAddrInvalid, n) :
         n \in {<<>>, << PrefixTlv(TRUE, Prefix1, <<BrS(RlocA, 0)>>) >>}}
    \cup {ServerDataRequest(RlocC, kShortAddrInvalid, n) :
              n \in {<<>>, << PrefixTlv(TRUE, Prefix1, <<BrS(RlocC, 0)>>) >>,
                     << PrefixTlv(TRUE, Prefix2, <<BrS(RlocC, 0)>>) >>}}

\* mTimer fires; the calls of the timer are not counted against MaxBumps.
TimerExpires == last.op = "Idle" /\ HandleTimerCall

\* Time passes while the timer is armed and not due.
ClockAdvances ==
    /\ last.op = "Idle"
    /\ timer.running /\ TimeLess(now, timer.fire)
    /\ now' = TimeAdd(now, TickMsec)
    /\ UNCHANGED <<tlvs, version, stableVersion, ctx, timer, waiting, role, last>>

LiveNext ==
    \/ \E mode \in {kStartingAsLeader, kRestoringLeaderRoleAfterReset} : Start(mode)
    \/ \E req \in BorderRouterRequests : ServerData(req)
    \/ RemoveBorderRouterCall(RlocA, kMatchModeRloc16)
    \/ \E data \in RestoredNetworkData : NetworkDataRestored(data)
    \/ TimerExpires
    \/ Return
    \/ ClockAdvances

\* mTimer is due: TimerExpires is enabled.
TimerDue == last.op = "Idle" /\ timer.running /\ TimeGeq(now, timer.fire)

\* A step of TimerExpires: no other action starts a call of HandleTimer.
TimerRuns == last.op = "Idle" /\ last'.op = "HandleTimer"

\* Every call returns; time advances and the timer fires however many
\* requests arrive.  The last conjunct is the strong fairness of
\* TimerExpires, written with its enabling condition.
LiveSpec ==
    /\ Init /\ [][LiveNext]_vars
    /\ WF_vars(Return)
    /\ SF_vars(ClockAdvances)
    /\ ([]<>TimerDue => []<><<TimerRuns>>_vars)

(***************************************************************************)
(* The restart of a Leader after a reset, for many registries and router   *)
(* tables                                                                  *)
(***************************************************************************)
\* The devices that hold servers: the routers 1, 2 and 3 and a child of
\* router 3.
RlocB == Rloc16FromRouterId(2)
RlocE == Rloc16FromRouterId(3) + 1
ServerDevices == <<RlocD, RlocA, RlocE, RlocB>>

\* The servers of the devices of the set, in the order of ServerDevices.
ServersOf(devices) ==
    [k \in 1..Cardinality(devices) |->
        SrvS(SelectSeq(ServerDevices, LAMBDA r : r \in devices)[k])]

\* The Prefix TLVs and the Service TLVs of the registries a Leader has
\* built: a service holds at least one server.
RestoredPrefixes ==
    { <<>>,
      << PrefixTlv(TRUE, Prefix1,
             << BorderRouterTlv(TRUE, <<Entry(RlocD, 0), Entry(RlocA, 0)>>),
                ContextTlv(TRUE, TRUE, 1) >>) >>,
      << PrefixTlv(FALSE, Prefix2,
             << HasRouteTlv(FALSE, <<Entry(RlocE, 0)>>),
                ContextTlv(FALSE, FALSE, 3) >>) >> }

RestoredServices ==
    { <<>> } \cup
    { << ServiceTlv(TRUE, Service1, 0, ServersOf(devices)) >> :
          devices \in SUBSET {RlocD, RlocA, RlocE, RlocB} \ {{}} } \cup
    { << ServiceTlv(TRUE, Service1, 0, <<SrvS(d[1])>>),
         ServiceTlv(TRUE, ServiceKey(kThreadEnterpriseNumber, 1, 2), 1, <<SrvS(d[2])>>) >> :
          d \in {RlocD, RlocA} \X {RlocE, RlocB} }

\* A registry whose first TLV is a service of router 3 and whose second is
\* a prefix that router 3 alone serves as a border router.  The service
\* data is 78 bytes long: the Service TLV, without its server, takes 82.
ServiceFirst ==
    << ServiceTlv(TRUE, ServiceKey(kThreadEnterpriseNumber, 78, 3),
                  0, <<SrvS(RlocD)>>),
       PrefixTlv(TRUE, Prefix1,
           << BorderRouterTlv(TRUE, <<Entry(RlocD, 0)>>),
              ContextTlv(TRUE, TRUE, 1) >>) >>

RestoredRegistries ==
    { p \o v : p \in RestoredPrefixes, v \in RestoredServices } \cup { ServiceFirst }

\* The router ids the router table may hold when the Network Data arrives.
RouterTables == { {}, {2}, {3}, {1, 2}, {1, 2, 3} }

RestoreNext ==
    \/ Start(kRestoringLeaderRoleAfterReset)
    \/ \E data \in RestoredRegistries, allocated \in RouterTables :
           NetworkDataRestoredIn(data, allocated)
    \/ Return

RestoreSpec == Init /\ [][RestoreNext]_vars

(***************************************************************************)
(* HandleNetworkDataRestoredAfterReset, one pass of its first loop at a    *)
(* time.  The Leader object of the call in progress is last.req.self;      *)
(* restarts counts the times the loop has set iterator to kIteratorInit.   *)
(***************************************************************************)
\* The servers of the registry whose router id is not allocated, by place.
Unallocated(regs, allocated) ==
    {k \in 1..Len(GetServers(regs)) :
        RouterIdFromRloc16(GetServers(regs)[k]) \notin allocated}

\* The Network Data arrives and the call starts: tlvIterator is built and
\* mWaitingForNetDataSync is cleared.
RestoreStarts(data, allocated) ==
    /\ Ready
    /\ role = "leader" /\ waiting
    /\ waiting' = FALSE
    /\ LET W == FlagsClear([Self EXCEPT !.tlvs = data, !.iterating = TRUE])
       IN /\ Commit(W)
          /\ last' = Last("RestoreLoop",
                          [restored |-> data, allocated |-> allocated,
                           self |-> W, restarts |-> 0], W)
    /\ UNCHANGED <<role, now>>

\* GetNextServer yields a server of a router id that is not allocated:
\* RemoveRloc, and the loop restarts.
RestoreRemoves ==
    /\ last.op = "RestoreLoop"
    /\ Unallocated(last.req.self.tlvs, last.req.allocated) # {}
    /\ LET bad == Unallocated(last.req.self.tlvs, last.req.allocated)
           k == CHOOSE x \in bad : \A y \in bad : x <= y
           W == RemoveRloc(last.req.self, GetServers(last.req.self.tlvs)[k],
                           kMatchModeRouterId, <<>>)
       IN /\ Commit(W)
          /\ last' = [last EXCEPT !.req.self = W, !.req.restarts = @ + 1]
    /\ UNCHANGED <<waiting, role, now>>

\* GetNextServer reaches the end: the versions advance, the context ids are
\* synchronized and the call returns.
RestoreEnds ==
    /\ last.op = "RestoreLoop"
    /\ Unallocated(last.req.self.tlvs, last.req.allocated) = {}
    /\ LET W == SyncContextIds(IncrementVersions(last.req.self))
       IN /\ Commit(W)
          /\ last' = [Last("NetworkDataRestored",
                           [restored |-> last.req.restored,
                            allocated |-> last.req.allocated], W)
                          EXCEPT !.pre = last.pre]
    /\ UNCHANGED <<waiting, role, now>>

LoopNext ==
    \/ Start(kRestoringLeaderRoleAfterReset)
    \/ \E data \in RestoredRegistries, allocated \in RouterTables :
           RestoreStarts(data, allocated)
    \/ RestoreRemoves
    \/ RestoreEnds
    \/ Return

\* The call is in its first loop: RestoreRemoves or RestoreEnds is enabled.
InLoop == last.op = "RestoreLoop"

\* A step of RestoreRemoves or of RestoreEnds.
PassTaken == InLoop /\ last' # last

\* The code of the call runs on and every call returns.  The last conjunct
\* is the weak fairness of the passes of the loop, written with its
\* enabling condition.
LoopSpec ==
    /\ Init /\ [][LoopNext]_vars
    /\ WF_vars(Return)
    /\ (<>[]InLoop => []<><<PassTaken>>_vars)

(***************************************************************************)
(* A device that is not the leader checks whether its Network Data fits    *)
(***************************************************************************)
\* The registries the device has received from the leader: those of
\* RestoredRegistries, and registries with 25 free bytes or less.
ReceivedRegistries ==
    RestoredRegistries \cup
    { << ServiceTlv(FALSE, ServiceBig, 0, <<SrvT(RlocB)>>) >> \o p : p \in RestoredPrefixes }

\* The local Network Data of the device, its RLOC16 and its old RLOC16.
LocalNetworkData ==
    {ServerDataRequest(RlocA, kShortAddrInvalid, n) : n \in NetsOfA}
    \cup {ServerDataRequest(RlocC, old, n) : old \in {kShortAddrInvalid, RlocA},
                                            n \in NetsOfC}

\* MLE hands the Network Data received from the leader to the Leader object
\* (LeaderBase::SetNetworkData).
NetworkDataReceived(data) ==
    /\ last.op = "Idle"
    /\ role # "leader"
    /\ tlvs' = data
    /\ UNCHANGED <<version, stableVersion, ctx, timer, waiting, role, now, last>>

\* Leader::CheckForNetDataGettingFull, called by the Notifier of local
\* Network Data before the device sends it to the leader.
CheckForNetDataGettingFullCall(req) ==
    /\ last.op = "Idle"
    /\ Finish("CheckForNetDataGettingFull", req,
              CheckForNetDataGettingFull(Self, req.net, req.old, role = "leader",
                                         req.peer, AllocatedRouterIds))
    /\ UNCHANGED <<waiting, role, now>>

CloneNext ==
    \/ Start(kStartingAsLeader)
    \/ \E data \in ReceivedRegistries : NetworkDataReceived(data)
    \/ \E req \in LocalNetworkData : CheckForNetDataGettingFullCall(req)
    \/ Return

CloneSpec == Init /\ [][CloneNext]_vars

(***************************************************************************)
(* Properties.  A call is observed between its end and its Return: last    *)
(* holds its inputs and the Leader object it started from (last.pre).      *)
(***************************************************************************)
\* The call observed is an n/sd request that the Leader handled.
Handled == last.op = "ServerData" /\ last.reply = "Ack"

\* The call observed is register(r, data) alone, for valid data and an RLOC16
\* whose router id is allocated.
Registered ==
    /\ Handled
    /\ last.req.old = kShortAddrInvalid
    /\ last.req.net # NoNetworkData
    /\ RouterIdFromRloc16(last.req.peer) \in AllocatedRouterIds
    /\ Validate(last.req.net, last.req.peer) = NoError

\* The registry holds the entry of the submitted sub-TLV sub of the prefix
\* or service key.
HoldsEntry(regs, key, sub) ==
    \E i \in 1..Len(regs) :
        /\ regs[i].type \in {"Prefix", "Service"} /\ regs[i].key = key
        /\ \E j \in 1..Len(regs[i].subs) :
               /\ regs[i].subs[j].type = sub.type
               /\ regs[i].subs[j].stable = sub.stable
               /\ IF sub.type = "Server" THEN regs[i].subs[j] = sub
                  ELSE \E k \in 1..Len(regs[i].subs[j].entries) :
                           regs[i].subs[j].entries[k] = sub.entries[1]

\* The submitted sub-TLVs that carry an entry, as <<key, sub-TLV>> pairs.
Submitted(net) ==
    UNION {{<<net[i].key, net[i].subs[j]>> :
                j \in {k \in 1..Len(net[i].subs) :
                           net[i].subs[k].type \in {"HasRoute", "BorderRouter", "Server"}}} :
               i \in 1..Len(net)}

\* The submitted entries the registry does not hold.
Missing(regs, net) == {e \in Submitted(net) : ~HoldsEntry(regs, e[1], e[2])}

\* C1: the registry never takes more than kMaxSize = 254 bytes; a
\* registration leaves a submitted entry out exactly when it reports NoBufs,
\* and setting the Commissioning Data that reports NoBufs stores none.
C1_BoundedBuffer ==
    /\ GetLength(tlvs) <= kMaxSize
    /\ Registered => (Missing(tlvs, last.req.net) # {} <=> last.err = ErrNoBufs)
    /\ (last.op \in {"Petition", "CommissionerSet"} /\ last.err = ErrNoBufs)
           => FindCommissioningData(tlvs) = 0

\* C1 happens: a registration was refused an insertion with NoBufs while
\* the entries before it were stored.
C1_Witness ==
    /\ Registered /\ last.err = ErrNoBufs /\ last.full
    /\ Missing(tlvs, last.req.net) # {}
    /\ Missing(tlvs, last.req.net) # Submitted(last.req.net)
    /\ GetLength(tlvs) > kMaxSize - 10

\* C2: no two Prefix TLVs of the registry have the same prefix and no two
\* Service TLVs the same enterprise number and service data.
C2_NoDuplicates ==
    \A i, j \in 1..Len(tlvs) :
        (i # j /\ tlvs[i].type = tlvs[j].type /\ tlvs[i].type \in {"Prefix", "Service"})
            => tlvs[i].key # tlvs[j].key

\* C2 happens: a registration added an entry to a Prefix TLV and to a
\* Service TLV that were in the registry before it.
C2_Witness ==
    /\ Registered /\ last.err = NoError /\ last.changed
    /\ Len(tlvs) = Len(last.pre.tlvs)
    /\ GetLength(tlvs) > GetLength(last.pre.tlvs)
    /\ \E i \in 1..Len(last.req.net) :
           FindTlv(last.pre.tlvs, last.req.net[i].type, last.req.net[i].key) # 0

\* C3: every Prefix and Service TLV of the registry has a sub-TLV, and is
\* stable exactly when one of its sub-TLVs is.
C3_ParentStable ==
    \A i \in 1..Len(tlvs) :
        tlvs[i].type \in {"Prefix", "Service"} =>
            /\ tlvs[i].subs # <<>>
            /\ tlvs[i].stable = (\E j \in 1..Len(tlvs[i].subs) : tlvs[i].subs[j].stable)

\* C3 happens: RemoveBorderRouter removed the last sub-TLV of a TLV, and the
\* TLV with it, while a stable and a non-stable TLV stay.
C3_Witness ==
    /\ last.op = "RemoveBorderRouter"
    /\ Len(tlvs) < Len(last.pre.tlvs)
    /\ \E i, j \in 1..Len(tlvs) : tlvs[i].stable /\ ~tlvs[j].stable

C5_RegisterIdempotent ==
    Registered =>
        LET W == RegisterNetworkData(Self, last.req.peer, last.req.net,
                                     AllocatedRouterIds)
        IN /\ W.tlvs = tlvs
           /\ W.version = version
           /\ W.stableVersion = stableVersion
           /\ W.signals = 0
           /\ W.err = last.err

\* C5 happens: a registration changed the registry: it removed entries of
\* the device and added the submitted ones, a Border Router among them.
C5_Witness ==
    /\ Registered /\ last.changed /\ last.err = NoError
    /\ \E e \in Submitted(last.req.net) :
           e[2].type = "BorderRouter" /\ ~HoldsEntry(last.pre.tlvs, e[1], e[2])
    /\ Len(tlvs) < Len(last.pre.tlvs)

\* The registry holds an entry or a server of the device rloc.
HoldsRloc(regs, rloc) ==
    \E i \in 1..Len(regs) :
        /\ regs[i].type \in {"Prefix", "Service"}
        /\ \E j \in 1..Len(regs[i].subs) :
               \/ regs[i].subs[j].type = "Server" /\ regs[i].subs[j].rloc = rloc
               \/ \E k \in 1..Len(regs[i].subs[j].entries) :
                      regs[i].subs[j].entries[k].rloc = rloc

\* Every submitted Border Router sub-TLV is for a prefix that the registry
\* holds with a Context TLV, a stable one when the sub-TLV is stable.
ContextsKept(regs, net) ==
    \A e \in Submitted(net) :
        e[2].type = "BorderRouter" =>
            /\ FindPrefix(regs, e[1]) # 0
            /\ \E j \in 1..Len(regs[FindPrefix(regs, e[1])].subs) :
                   /\ regs[FindPrefix(regs, e[1])].subs[j].type = "Context"
                   /\ e[2].stable => regs[FindPrefix(regs, e[1])].subs[j].stable

\* The registry after remove_rloc(r, Rloc16), r the device of the call observed.
AfterRemoveRloc == RemoveBorderRouter(Self, last.req.peer, kMatchModeRloc16).tlvs

\* The registration allocated nothing: the context ids allocated and the
\* service ids of the registry were so before it.
NoAllocation ==
    /\ \A id \in ContextIdRange :
           IsUnallocated(last.pre.ctx, id) => IsUnallocated(ctx, id)
    /\ \A i \in 1..Len(tlvs) :
           tlvs[i].type = "Service" => FindServiceById(last.pre.tlvs, tlvs[i].id) # 0

\* C6 as stated: register(r, data) followed by remove_rloc(r, Rloc16) gives
\* back the registry as it was before the registration, when the
\* registration allocated nothing.
C6_RoundTrip == (Registered /\ NoAllocation) => AfterRemoveRloc = last.pre.tlvs

\* C6 amended: it does when the registry held no entry of r and every
\* submitted Border Router found the Context TLV of its prefix, stable if
\* the Border Router is.
C6_RoundTripAmended ==
    (/\ Registered
     /\ ~HoldsRloc(last.pre.tlvs, last.req.peer)
     /\ ContextsKept(last.pre.tlvs, last.req.net))
        => AfterRemoveRloc = last.pre.tlvs

\* C6 happens: a device with no entry registered a Border Router on a prefix
\* that had a Context TLV and a Has Route on a prefix of another device.
C6_Witness ==
    /\ Registered /\ last.changed
    /\ ~HoldsRloc(last.pre.tlvs, last.req.peer)
    /\ ContextsKept(last.pre.tlvs, last.req.net)
    /\ last.pre.tlvs # <<>>
    /\ \E e \in Submitted(last.req.net) : e[2].type = "BorderRouter"
    /\ AfterRemoveRloc # tlvs

\* A call is observed (of any operation).
Observed == last.op # "Idle"

\* C7 as stated: neither counter is smaller after an operation than before.
C7_NonDecreasing ==
    Observed => /\ version >= last.pre.version
                /\ stableVersion >= last.pre.stableVersion

\* C7 amended: the version advances modulo 256 by one for each change the
\* operation signalled, and the stable version by at most as much.
C7_AdvanceMod256 ==
    Observed =>
        /\ version = (last.pre.version + last.signals) % kUint8
        /\ \E k \in 0..last.signals :
               stableVersion = (last.pre.stableVersion + k) % kUint8

\* C7 happens: an operation advanced both counters, one of them from 255 to 0.
C7_Witness ==
    /\ Observed
    /\ last.signals > 0
    /\ version # last.pre.version /\ stableVersion # last.pre.stableVersion
    /\ version < last.pre.version

\* The stable TLVs of the registry with their stable sub-TLVs.
IsStable(tlv) == tlv.stable

StableView(regs) ==
    LET st == SelectSeq(regs, IsStable)
    IN [i \in 1..Len(st) |-> [st[i] EXCEPT !.subs = SelectSeq(@, IsStable)]]

StableChanged == StableView(tlvs) # StableView(last.pre.tlvs)

\* The call observed is a register or a RemoveBorderRouter.
Swept == Handled \/ last.op = "RemoveBorderRouter"

\* The call observed is the timer's, removing the contexts whose time has come.
Expired == last.op = "HandleTimer" /\ last.reply = ""

C9_EveryChangeCounts ==
    Swept => /\ tlvs # last.pre.tlvs => version # last.pre.version
             /\ StableChanged => stableVersion # last.pre.stableVersion

\* The prefix of the submission of the call observed and its Border Router.
S1Prefix == last.req.net[1]

\* The call observed registered one stable Border Router entry for one
\* prefix that the registry did not hold.
S1 ==
    /\ Registered
    /\ Len(last.req.net) = 1
    /\ S1Prefix.type = "Prefix"
    /\ Len(S1Prefix.subs) = 1
    /\ S1Prefix.subs[1].type = "BorderRouter" /\ S1Prefix.subs[1].stable
    /\ FindPrefix(last.pre.tlvs, S1Prefix.key) = 0

\* The registry holds one Prefix TLV for the prefix, with one stable Border
\* Router TLV of one entry and a Context TLV with compress set and the
\* smallest id that was unallocated, now in use; each counter has advanced
\* by one.
S1Stored ==
    LET found == {i \in 1..Len(tlvs) :
                      tlvs[i].type = "Prefix" /\ tlvs[i].key = S1Prefix.key}
        prefix == tlvs[FindPrefix(tlvs, S1Prefix.key)]
    IN /\ Cardinality(found) = 1
       /\ Len(prefix.subs) = 2
       /\ prefix.subs[1] = S1Prefix.subs[1]
       /\ prefix.subs[2].type = "Context" /\ prefix.subs[2].compress
       /\ prefix.subs[2].cid \in kMinId..kMaxId
       /\ IsUnallocated(last.pre.ctx, prefix.subs[2].cid)
       /\ \A id \in kMinId..(prefix.subs[2].cid - 1) :
              ~IsUnallocated(last.pre.ctx, id)
       /\ IsInUse(ctx, prefix.subs[2].cid)
       /\ version = (last.pre.version + 1) % kUint8
       /\ stableVersion = (last.pre.stableVersion + 1) % kUint8

\* C10 as stated: registering one stable Border Router entry for a prefix
\* that the registry does not hold stores it so, whatever the registry.
C10_SingleBorderRouter == S1 => S1Stored

\* C10 amended: it does when the registration reports no error; one that
\* reports an error leaves the registry without a Prefix TLV for the prefix.
C10_SingleBorderRouterStored ==
    S1 => IF last.err = NoError
          THEN S1Stored
          ELSE FindPrefix(tlvs, S1Prefix.key) = 0

\* C10 happens: the Border Router was registered while id 1 was taken, and
\* its prefix was given id 2.
C10_Witness ==
    /\ S1 /\ last.err = NoError
    /\ ~IsUnallocated(last.pre.ctx, kMinId)
    /\ IsInUse(ctx, kMinId + 1) /\ IsUnallocated(last.pre.ctx, kMinId + 1)

\* The prefixes of the registry regs whose only contributor is the device
\* rloc, with one stable Border Router entry: their places in regs.
SoleBorderRouter(regs, rloc) ==
    {i \in 1..Len(regs) :
        /\ regs[i].type = "Prefix"
        /\ Len(regs[i].subs) = 2
        /\ \E j, k \in 1..2 :
               /\ regs[i].subs[j].type = "BorderRouter" /\ regs[i].subs[j].stable
               /\ Len(regs[i].subs[j].entries) = 1
               /\ regs[i].subs[j].entries[1].rloc = rloc
               /\ regs[i].subs[k].type = "Context"}

\* The call observed is a register of empty Network Data by a device that
\* is the only contributor of a prefix (scenario S3).
S3 ==
    /\ Registered
    /\ last.req.net = <<>>
    /\ SoleBorderRouter(last.pre.tlvs, last.req.peer) # {}

\* The Context TLV of the prefix at place i of the registry regs.
ContextOf(regs, i) == regs[i].subs[FindSubTlv(regs[i].subs, "Context")]

\* The time a context id scheduled at the time t is removed.
RemoveTimeFrom(t) == SkipSentinels(TimeAdd(t, SecToMsec(kReuseDelay)))

\* No entry of the device is left, the context id of each of its prefixes
\* awaits removal and both counters have advanced by one.
S3Swept ==
    /\ ~HoldsRloc(tlvs, last.req.peer)
    /\ \A i \in SoleBorderRouter(last.pre.tlvs, last.req.peer) :
           /\ IsPendingRemove(ctx, ContextOf(last.pre.tlvs, i).cid)
           /\ ctx[ContextOf(last.pre.tlvs, i).cid] = RemoveTimeFrom(now)
           /\ timer.running
           /\ ~TimeLess(ctx[ContextOf(last.pre.tlvs, i).cid], timer.fire)
    /\ version = (last.pre.version + 1) % kUint8
    /\ stableVersion = (last.pre.stableVersion + 1) % kUint8

\* C11 as stated: the register of empty Network Data removes the entries of
\* the device and the Prefix TLV, schedules the context id for removal and
\* advances both counters.
C11_PrefixRemoved ==
    S3 => /\ S3Swept
          /\ \A i \in SoleBorderRouter(last.pre.tlvs, last.req.peer) :
                 FindPrefix(tlvs, last.pre.tlvs[i].key) = 0

\* C11 amended: the Prefix TLV stays, holding only its Context TLV with the
\* compress flag cleared, until the timer removes the context id.
C11_PrefixKeepsContext ==
    S3 => /\ S3Swept
          /\ \A i \in SoleBorderRouter(last.pre.tlvs, last.req.peer) :
                 /\ FindPrefix(tlvs, last.pre.tlvs[i].key) # 0
                 /\ tlvs[FindPrefix(tlvs, last.pre.tlvs[i].key)].subs
                        = << [ContextOf(last.pre.tlvs, i) EXCEPT !.compress = FALSE] >>

\* C11 happens: the only contributor of a prefix registered empty Network
\* Data while the registry held a TLV of another device.
C11_Witness ==
    /\ S3
    /\ Len(tlvs) > 1
    /\ \E i \in SoleBorderRouter(last.pre.tlvs, last.req.peer) :
           /\ last.pre.tlvs[i].subs[1].type = "BorderRouter"
           /\ IsInUse(last.pre.ctx, ContextOf(last.pre.tlvs, i).cid)

\* The call observed is a register(r, data) alone.
RegisterCalled ==
    /\ Handled
    /\ last.req.old = kShortAddrInvalid
    /\ last.req.net # NoNetworkData

\* The Leader object is as it was before the call observed.
Untouched ==
    /\ tlvs = last.pre.tlvs
    /\ ctx = last.pre.ctx
    /\ timer = last.pre.timer
    /\ version = last.pre.version
    /\ stableVersion = last.pre.stableVersion
    /\ last.signals = 0

\* C12: a register by a device whose router id is not allocated reports
\* NoRoute, one of a submission that is not valid reports Parse, and both
\* leave the registry, the context ids and the counters as they were.
C12_RejectedUnchanged ==
    RegisterCalled =>
        /\ RouterIdFromRloc16(last.req.peer) \notin AllocatedRouterIds
               => (last.err = ErrNoRoute /\ Untouched)
        /\ (/\ RouterIdFromRloc16(last.req.peer) \in AllocatedRouterIds
            /\ Validate(last.req.net, last.req.peer) # NoError)
               => (last.err = ErrParse /\ Untouched)
        /\ last.err \in {ErrNoRoute, ErrParse} => Untouched

\* C12 happens: a device with entries in the registry and a context id in
\* use submitted an entry of another device, and was refused with Parse.
C12_Witness ==
    /\ RegisterCalled
    /\ last.err = ErrParse
    /\ HoldsRloc(tlvs, last.req.peer)
    /\ \E id \in ContextIdRange : IsInUse(ctx, id)
    /\ \E e \in Submitted(last.req.net) :
           e[2].type = "BorderRouter" /\ e[2].entries[1].rloc # last.req.peer

\* The call observed is an n/sd or a c/cs request received while the Leader
\* waits for the Network Data of the network.
ReceivedWhileWaiting == last.op \in {"ServerData", "CommissionerSet"} /\ waiting

\* C13: while the Leader waits for the Network Data after a reset, an n/sd
\* or c/cs request changes neither the registry (the Commissioning Data
\* with it) nor the context ids nor a counter; n/sd is not acknowledged and
\* c/cs is answered with Reject (by a leader; another node does not answer).
C13_NoChangeWhileWaiting ==
    ReceivedWhileWaiting =>
        /\ Untouched
        /\ GetCommissioningData(tlvs) = GetCommissioningData(last.pre.tlvs)
        /\ last.op = "ServerData" => last.reply = ""
        /\ last.op = "CommissionerSet"
               => last.reply = (IF role = "leader" THEN kStateReject ELSE "")

\* C13 happens: a valid registration of a Border Router by a device whose
\* router id is allocated was received while waiting.
C13_Witness ==
    /\ ReceivedWhileWaiting
    /\ last.op = "ServerData"
    /\ last.req.net # NoNetworkData
    /\ RouterIdFromRloc16(last.req.peer) \in AllocatedRouterIds
    /\ Validate(last.req.net, last.req.peer) = NoError
    /\ \E e \in Submitted(last.req.net) : e[2].type = "BorderRouter"

\* The c/cs request req meets the four conditions: its TLVs all parse, none
\* in the extended form; it holds a Commissioner Session Id TLV; it holds a
\* Joiner UDP Port or a Steering Data TLV; it holds no Border Agent Locator.
MeetsSetConditions(req) ==
    /\ \A i \in 1..Len(req) : ~req[i].extended /\ ~req[i].truncated
    /\ \E i \in 1..Len(req) : req[i].type = "CommissionerSessionId"
    /\ \E i \in 1..Len(req) : req[i].type \in {"JoinerUdpPort", "SteeringData"}
    /\ \A i \in 1..Len(req) : req[i].type # "BorderAgentLocator"

SessionIds(data) ==
    {data[i].val : i \in {j \in 1..Len(data) : data[j].type = "CommissionerSessionId"}}

\* The call observed is a c/cs request to the leader whose session id is
\* not the one stored in the Commissioning Data.
SessionMismatch ==
    /\ last.op = "CommissionerSet"
    /\ role = "leader"
    /\ SessionIds(last.req.tlvs) # {}
    /\ SessionIds(GetCommissioningData(last.pre.tlvs)) # {}
    /\ SessionIds(last.req.tlvs) \cap SessionIds(GetCommissioningData(last.pre.tlvs)) = {}

\* C15: such a request is answered with Reject, and the Commissioning Data
\* (the whole registry) and both counters stay as they were.
C15_MismatchRejected ==
    SessionMismatch =>
        /\ last.reply = kStateReject
        /\ GetCommissioningData(tlvs) = GetCommissioningData(last.pre.tlvs)
        /\ Untouched

\* C15 happens: a request that meets the conditions of c/cs, and small
\* enough to be stored, came with another session's id.
C15_Witness ==
    /\ SessionMismatch
    /\ MeetsSetConditions(last.req.tlvs)
    /\ ~waiting
    /\ CanInsert(RemoveCommissioningData(last.pre).tlvs,
                 kTlvHeaderSize + SubTlvsSize(last.req.tlvs))

\* The Border Agent Locator TLVs among the MeshCoP TLVs data, in order.
IsBorderAgentLocator(tlv) == tlv.type = "BorderAgentLocator"

BorderAgentLocators(data) == SelectSeq(data, IsBorderAgentLocator)

\* C16: when c/cs is answered with Accept, the Commissioning Data is the
\* TLVs of the request followed by the Border Agent Locator stored before,
\* and both counters have advanced by one.
C16_AcceptInstalls ==
    (last.op = "CommissionerSet" /\ last.reply = kStateAccept) =>
        /\ GetCommissioningData(tlvs)
               = last.req.tlvs \o BorderAgentLocators(GetCommissioningData(last.pre.tlvs))
        /\ version = (last.pre.version + 1) % kUint8
        /\ stableVersion = (last.pre.stableVersion + 1) % kUint8

\* The stored TLVs a c/cg request for the types asks for: for each type in
\* turn, the stored TLV of that type with the least position, if any.
FirstStored(data, type) ==
    LET at == {i \in 1..Len(data) : data[i].type = type}
    IN IF at = {} THEN <<>>
       ELSE <<data[CHOOSE i \in at : \A j \in at : i <= j]>>

RECURSIVE Requested(_, _)
Requested(data, types) ==
    IF types = <<>> THEN <<>>
    ELSE FirstStored(data, Head(types)) \o Requested(data, Tail(types))

\* C17: a leader that holds Commissioning Data answers every
\* MGMT_COMMISSIONER_GET; the payload of the response to a non-empty list of
\* types is the catenation, in the order of the list, of the first stored
\* TLV of each type, unchanged (a type that is not stored adds nothing), and
\* the payload of the response to an empty list is the whole stored
\* Commissioning Data.  The request changes nothing.
C17_GetResponse ==
    last.op = "CommissionerGet" =>
        LET data == GetCommissioningData(last.pre.tlvs)
        IN /\ (role = "leader" /\ data # <<>>) => last.reply = kResponse
           /\ last.reply = kResponse =>
                  last.payload = IF last.req.types = <<>> THEN data
                                 ELSE Requested(data, last.req.types)
           /\ Untouched

\* A list with a repeated type and a type that is not stored is answered
\* from data that holds two TLVs of the repeated type.
C17_Witness ==
    /\ last.op = "CommissionerGet"
    /\ last.reply = kResponse
    /\ Len(last.req.types) = 4
    /\ Len(SelectSeq(GetCommissioningData(last.pre.tlvs),
                     LAMBDA t : t.type = "SteeringData")) = 2
    /\ Len(last.payload) = 3

\* The keys of the prefixes of the registry regs that hold a Context TLV
\* with the context id.
PrefixesOf(regs, id) ==
    {regs[i].key : i \in {k \in 1..Len(regs) :
        /\ regs[k].type = "Prefix"
        /\ \E j \in 1..Len(regs[k].subs) :
               regs[k].subs[j].type = "Context" /\ regs[k].subs[j].cid = id}}

\* The prefix of the context id held a Border Router TLV before the call
\* observed and holds none after it.
LostLastBorderRouter(id) ==
    \E i \in 1..Len(last.pre.tlvs) :
        /\ last.pre.tlvs[i].type = "Prefix"
        /\ last.pre.tlvs[i].key \in PrefixesOf(last.pre.tlvs, id)
        /\ FindSubTlv(last.pre.tlvs[i].subs, "BorderRouter") # 0
        /\ \/ FindPrefix(tlvs, last.pre.tlvs[i].key) = 0
           \/ FindSubTlv(tlvs[FindPrefix(tlvs, last.pre.tlvs[i].key)].subs,
                         "BorderRouter") = 0

\* The context id awaited removal before the call observed and its remove
\* time has not come.
Reserved(id) ==
    /\ last.op # "Idle"
    /\ IsPendingRemove(last.pre.ctx, id)
    /\ TimeLess(now, last.pre.ctx[id])

\* C18: a context id stays reserved for the reuse delay.  A call at the
\* time t that takes the last Border Router TLV from the prefix of a context
\* id in use schedules the id; every id a call schedules gets the remove
\* time t + reuse delay (or the first later time that is not a sentinel);
\* and a call before the remove time of a scheduled id neither makes the id
\* unallocated, nor moves its remove time, nor gives the id to a prefix
\* that did not hold it.
C18_ReservedForReuseDelay ==
    last.op # "Idle" =>
        \A id \in {i \in ContextIdRange : last.pre.ctx[i] # ctx[i]
                                            \/ ctx[i] # ContextIdsClear[i]} :
            /\ (IsInUse(last.pre.ctx, id) /\ LostLastBorderRouter(id))
                   => IsPendingRemove(ctx, id)
            /\ (~IsPendingRemove(last.pre.ctx, id) /\ IsPendingRemove(ctx, id))
                   => ctx[id] = RemoveTimeFrom(now)
            /\ Reserved(id) =>
                   /\ ~IsUnallocated(ctx, id)
                   /\ IsPendingRemove(ctx, id) => ctx[id] = last.pre.ctx[id]
                   /\ PrefixesOf(tlvs, id) \subseteq PrefixesOf(last.pre.tlvs, id)

\* While a context id awaits removal the timer fires for another id, whose
\* time has come.
C18_Witness ==
    \E id \in ContextIdRange :
        /\ Reserved(id)
        /\ last.op = "HandleTimer"
        /\ \E other \in ContextIdRange :
               IsPendingRemove(last.pre.ctx, other) /\ IsUnallocated(ctx, other)

\* The timer is armed for a time that is not later than the remove time of
\* any context id that awaits removal.
TimerArmedInTime ==
    \A id \in ContextIdRange :
        IsPendingRemove(ctx, id) => timer.running /\ ~TimeLess(ctx[id], timer.fire)

\* The context id is unallocated and no Prefix TLV holds a Context TLV
\* with it.
Reclaimed(id) == IsUnallocated(ctx, id) /\ PrefixesOf(tlvs, id) = {}

\* The context ids of the restored Network Data and of two allocations.
LiveIds == {1, 2, 3}

\* C19: while time advances and the timer fires when it is due, every
\* context id that awaits removal is in the end in use again, or is
\* unallocated with its Context TLV removed from every Prefix TLV; and the
\* timer is always armed no later than the earliest remove time, also when
\* Start armed it for the wait for the Network Data.  (No context id but
\* those of LiveIds is ever allocated under LiveSpec.)
C19_EventuallyReclaimed ==
    /\ []TimerArmedInTime
    /\ [](\A id \in ContextIdRange \ LiveIds : IsUnallocated(ctx, id))
    /\ \A id \in LiveIds :
           IsPendingRemove(ctx, id) ~> (IsInUse(ctx, id) \/ Reclaimed(id))

\* The timer armed by Start for the wait has fired after the Network Data
\* was restored, and later the context id the restored data held without a
\* Border Router is reclaimed.
C19_Witness ==
    /\ last.op = "HandleTimer"
    /\ ~waiting
    /\ FindPrefix(last.pre.tlvs, Prefix2) # 0
    /\ IsPendingRemove(last.pre.ctx, 3)
    /\ Reclaimed(3)
    /\ FindPrefix(tlvs, Prefix2) = 0

\* The RLOC16s of the Server TLVs of the registry regs.
ServersIn(regs) ==
    UNION { {regs[i].subs[j].rloc :
                 j \in {k \in 1..Len(regs[i].subs) : regs[i].subs[k].type = "Server"}} :
            i \in {k \in 1..Len(regs) : regs[k].type = "Service"} }

\* C20: when HandleNetworkDataRestoredAfterReset has returned, the Leader
\* no longer waits for the Network Data and the registry holds no Server
\* TLV of a device whose router id the router table does not hold, whatever
\* the restored registry and the router table.
C20_RestoredServersAllocated ==
    last.op = "NetworkDataRestored" =>
        /\ ~waiting
        /\ \A rloc \in ServersIn(tlvs) :
               RouterIdFromRloc16(rloc) \in last.req.allocated

\* The restored registry held servers of two router ids the router table
\* does not hold and a server of one it holds, which is kept.
C20_Witness ==
    /\ last.op = "NetworkDataRestored"
    /\ Cardinality({RouterIdFromRloc16(rloc) : rloc \in ServersIn(last.req.restored)}
                       \ last.req.allocated) = 2
    /\ ServersIn(tlvs) # {}

\* The clone of the call observed, after the replay.
CloneObserved ==
    ReplayOnClone(last.pre, last.req.net, last.req.old, last.req.peer,
                  AllocatedRouterIds)

\* C21: CheckForNetDataGettingFull replays the removal and the registration
\* on a clone only.  The registry, both version counters, the context id
\* slots and the timer of the Leader stay as they were and no change of the
\* Network Data is signalled; every context id and every service id the
\* clone allocates is the minimum id.
C21_CloneOnly ==
    last.op = "CheckForNetDataGettingFull" =>
        /\ Untouched
        /\ role # "leader" =>
               /\ CloneObserved.version = InitialVersion
               /\ CloneObserved.stableVersion = InitialStableVersion
               /\ \A i \in 1..Len(CloneObserved.tlvs) :
                      LET tlv == CloneObserved.tlvs[i] IN
                      /\ (tlv.type = "Service"
                             /\ FindService(last.pre.tlvs, tlv.key) = 0)
                            => tlv.id = kMinServiceId
                      /\ (tlv.type = "Prefix"
                             /\ FindSubTlv(tlv.subs, "Context") # 0
                             /\ (FindPrefix(last.pre.tlvs, tlv.key) = 0
                                    \/ FindSubTlv(
                                           last.pre.tlvs[FindPrefix(last.pre.tlvs, tlv.key)].subs,
                                           "Context") = 0))
                            => tlv.subs[FindSubTlv(tlv.subs, "Context")].cid = kMinId

\* The replay removed the entries of the old RLOC16 from the clone and
\* gave a prefix of the clone the context id that another prefix holds.
C21_Witness ==
    /\ last.op = "CheckForNetDataGettingFull"
    /\ role # "leader"
    /\ HoldsRloc(last.pre.tlvs, last.req.old)
    /\ ~HoldsRloc(CloneObserved.tlvs, last.req.old)
    /\ Cardinality(PrefixesOf(CloneObserved.tlvs, kMinId)) = 2

(***************************************************************************)
(* A Leader whose service ids or context ids are all taken                 *)
(***************************************************************************)
\* Services and prefixes of the smallest size, so that 16 services or 15
\* prefixes with a Context TLV fit in the registry.
ServiceN(k) == ServiceKey(kThreadEnterpriseNumber, 1, k)
SmallPrefix(k) == PrefixKey(8, k)

\* The first n services, with the service ids 0..n-1, each with a server of
\* router 2.
ServicesHeld(n) ==
    [k \in 1..n |-> ServiceTlv(TRUE, ServiceN(k), kMinServiceId + k - 1, <<SrvS(RlocB)>>)]

\* The first n prefixes, with the context ids 1..n, each with a Border
\* Router entry of router 2; the last pending of them have lost theirs, keep
\* a route, and hold a Context TLV with the compress flag cleared.
PrefixesHeld(n, pending) ==
    [k \in 1..n |->
        IF k > n - pending
        THEN PrefixTlv(TRUE, SmallPrefix(k),
                 << HasRouteTlv(TRUE, <<Entry(RlocB, 0)>>),
                    ContextTlv(TRUE, FALSE, kMinId + k - 1) >>)
        ELSE PrefixTlv(TRUE, SmallPrefix(k),
                 << BorderRouterTlv(TRUE, <<Entry(RlocB, 0)>>),
                    ContextTlv(TRUE, TRUE, kMinId + k - 1) >>)]

\* The registries the Leader holds: all 16 service ids, all but the last or
\* all but the first taken, all 15 context ids or all but one taken.
ExhaustedRegistries ==
    { ServicesHeld(kMaxServiceId - kMinServiceId + 1),
      ServicesHeld(kMaxServiceId - kMinServiceId),
      Tail(ServicesHeld(kMaxServiceId - kMinServiceId + 1)),
      PrefixesHeld(kMaxId - kMinId + 1, 0),
      PrefixesHeld(kMaxId - kMinId + 1, 1),
      PrefixesHeld(kMaxId - kMinId, 0) }

\* The n/sd requests of router 1: a service and a prefix the registry does
\* not hold, a service and a prefix it holds, and a route before a service.
ExhaustingRequests ==
    {ServerDataRequest(RlocA, kShortAddrInvalid, n) :
         n \in { << ServiceTlv(TRUE, ServiceN(kMaxServiceId + 2), 0, <<SrvS(RlocA)>>) >>,
                 << ServiceTlv(TRUE, Service1, 0, <<SrvS(RlocA)>>) >>,
                 << PrefixTlv(TRUE, Prefix1, <<BrS(RlocA, 0)>>) >>,
                 << PrefixTlv(TRUE, Prefix1, <<HrS(RlocA, 0)>>) >>,
                 << PrefixTlv(TRUE, SmallPrefix(1), <<BrS(RlocA, 0)>>) >>,
                 << PrefixTlv(TRUE, Prefix2, <<HrS(RlocA, 0)>>),
                    ServiceTlv(TRUE, ServiceN(kMaxServiceId + 2), 0, <<SrvS(RlocA)>>) >> }}

ExhaustedNext ==
    \/ Start(kRestoringLeaderRoleAfterReset)
    \/ \E data \in ExhaustedRegistries : NetworkDataRestored(data)
    \/ \E req \in ExhaustingRequests : ServerData(req)
    \/ Return

ExhaustedSpec == Init /\ [][ExhaustedNext]_vars

\* The registry when the register observed starts adding the submitted
\* TLVs: the entries of the device that are no longer submitted are gone.
SweptRegistry ==
    RemoveRloc(FlagsClear(last.pre), last.req.peer, kMatchModeRloc16, last.req.net).tlvs

\* The register observed must create a Service TLV, and every service id is
\* in use: its first submitted TLV is a service the registry does not hold.
MustCreateService ==
    /\ Registered
    /\ last.req.net # <<>>
    /\ last.req.net[1].type = "Service"
    /\ FindService(SweptRegistry, last.req.net[1].key) = 0
    /\ \A id \in kMinServiceId..kMaxServiceId : FindServiceById(SweptRegistry, id) # 0

\* The register observed must create a Context TLV, and no context id is
\* unallocated: its first submitted sub-TLV is a Border Router of a prefix
\* that has no Context TLV.
MustCreateContext ==
    /\ Registered
    /\ last.req.net # <<>>
    /\ last.req.net[1].type = "Prefix"
    /\ last.req.net[1].subs[1].type = "BorderRouter"
    /\ \/ FindPrefix(SweptRegistry, last.req.net[1].key) = 0
       \/ FindSubTlv(SweptRegistry[FindPrefix(SweptRegistry, last.req.net[1].key)].subs,
                     "Context") = 0
    /\ \A id \in ContextIdRange : ~IsUnallocated(last.pre.ctx, id)

\* C22: a register that must create a Service TLV when all 16 service ids
\* are in use, or a Context TLV when no context id is unallocated, reports
\* NoBufs.
C22_ExhaustionIsNoBufs ==
    (MustCreateService \/ MustCreateContext) => last.err = ErrNoBufs

\* What the code does in the case of C22: the register reports NotFound and
\* does not signal that the Network Data is full.
C22_ExhaustionIsNotFound ==
    (MustCreateService \/ MustCreateContext)
        => (last.err = ErrNotFound /\ ~last.full /\ tlvs = SweptRegistry)

\* The cases of C22 happen: the 17th service, and the 16th context while
\* one of 15 waits for its removal.
C22_Services == MustCreateService
C22_Contexts == MustCreateContext /\ \E id \in ContextIdRange : IsPendingRemove(last.pre.ctx, id)

\* The n/sd request observed is not ignored: the device is the leader, does
\* not wait for the Network Data, and the peer address is a routing locator.
NotIgnored == role = "leader" /\ ~waiting /\ last.req.locator

\* The TLVs of the n/sd request observed can be read: the Thread RLOC16 TLV,
\* if there, parses, and the Network Data TLV, if there, is valid.
WellFormed ==
    /\ last.req.rlocTlv \in {NoError, ErrNotFound}
    /\ last.req.net = NoNetworkData \/ last.req.valid

\* C23: an n/sd request that is not ignored is answered with one empty ACK,
\* whatever TLVs it holds and whether or not its Network Data TLV is valid
\* or registered; an ignored request is not answered.
C23_AlwaysAcked ==
    last.op = "ServerData" => (last.reply = "Ack" <=> NotIgnored)

\* What the code does in the case of C23: the ACK is sent when, moreover,
\* the TLVs of the request can be read, whatever the registration reports.
C23_AckedIfWellFormed ==
    last.op = "ServerData" =>
        /\ last.reply \in {"", "Ack"}
        /\ last.reply = "Ack" <=> (NotIgnored /\ WellFormed)

\* The case of C23 happens: the entries of the old RLOC16 of the device were
\* removed, its Network Data TLV was not valid, and no ACK was sent.
C23_Unanswered ==
    /\ last.op = "ServerData" /\ NotIgnored /\ ~last.req.valid
    /\ last.signals = 1 /\ last.reply = ""

\* Another case of C23: a registration that failed was acknowledged.
C23_FailureAcked == Handled /\ last.err = ErrNoBufs

\* No two entries of the sub-TLV are equal.
EntriesDiffer(sub) ==
    \A k, l \in 1..Len(sub.entries) : k # l => sub.entries[k] # sub.entries[l]

\* No two Server TLVs among the sub-TLVs are equal.
ServersDiffer(subs) ==
    \A j, k \in 1..Len(subs) :
        (j # k /\ subs[j].type = "Server" /\ subs[k].type = "Server") => subs[j] # subs[k]

\* C24: no Has Route TLV and no Border Router TLV of the registry holds two
\* equal entries, and no Service TLV two equal Server TLVs.
C24_EntriesUnique ==
    \A i \in 1..Len(tlvs) :
        tlvs[i].type \in {"Prefix", "Service"} =>
            /\ \A j \in 1..Len(tlvs[i].subs) : EntriesDiffer(tlvs[i].subs[j])
            /\ ServersDiffer(tlvs[i].subs)

\* C24 happens: a device registered again an entry that the registry held,
\* in a sub-TLV that holds the entry of another device too.
C24_Witness ==
    /\ Registered /\ last.err = NoError
    /\ \E e \in Submitted(last.req.net) :
           /\ e[2].type \in {"HasRoute", "BorderRouter"}
           /\ HoldsEntry(last.pre.tlvs, e[1], e[2])
           /\ \E j \in 1..Len(tlvs[FindPrefix(tlvs, e[1])].subs) :
                  /\ tlvs[FindPrefix(tlvs, e[1])].subs[j].type = e[2].type
                  /\ tlvs[FindPrefix(tlvs, e[1])].subs[j].stable = e[2].stable
                  /\ Len(tlvs[FindPrefix(tlvs, e[1])].subs[j].entries) > 1

\* C24 happens for servers: a device registered again its server of a
\* service that holds the server of another device too.
C24_Servers ==
    /\ Registered /\ last.err = NoError
    /\ \E e \in Submitted(last.req.net) :
           /\ e[2].type = "Server"
           /\ HoldsEntry(last.pre.tlvs, e[1], e[2])
           /\ Len(tlvs[FindService(tlvs, e[1])].subs) > 1

\* The entries and servers of the sub-TLV sub of the prefix or service key,
\* each as <<key, type of sub-TLV, stable flag, entry or Server TLV>>.
EntriesIn(key, sub) ==
    IF sub.type = "Server" THEN {<<key, sub.type, sub.stable, sub>>}
    ELSE {<<key, sub.type, sub.stable, sub.entries[k]>> : k \in 1..Len(sub.entries)}

\* The Has Route entries, Border Router entries and Server TLVs of regs.
AllEntries(regs) ==
    UNION { UNION { EntriesIn(regs[i].key, regs[i].subs[j]) :
                        j \in {k \in 1..Len(regs[i].subs) :
                                   regs[i].subs[k].type \in {"HasRoute", "BorderRouter", "Server"}} } :
                i \in {k \in 1..Len(regs) : regs[k].type \in {"Prefix", "Service"}} }

\* The RLOC16 of an entry or Server TLV.
Rloc16Of(e) == e[4].rloc

\* Those of the device rloc.
EntriesOf(regs, rloc) == {e \in AllEntries(regs) : Rloc16Of(e) = rloc}

\* C25: after a register(r, net) that succeeded, the entries and servers of
\* r in the registry are those of net, with the same prefix or service, the
\* same stable flag and the same content.
C25_ExactlySubmitted ==
    (Registered /\ last.err = NoError)
        => EntriesOf(tlvs, last.req.peer) = AllEntries(last.req.net)

\* C25 happens: the register removed an entry of r that was not submitted,
\* added one that the registry did not hold, and kept one it held.
C25_Witness ==
    /\ Registered /\ last.err = NoError
    /\ EntriesOf(last.pre.tlvs, last.req.peer) \ AllEntries(last.req.net) # {}
    /\ AllEntries(last.req.net) \ EntriesOf(last.pre.tlvs, last.req.peer) # {}
    /\ AllEntries(last.req.net) \cap EntriesOf(last.pre.tlvs, last.req.peer) # {}

\* The entries and servers of the devices other than rloc.
EntriesOfOthers(regs, rloc) == {e \in AllEntries(regs) : Rloc16Of(e) # rloc}

\* C26: a register(r, net), whatever it reports, leaves the entries and
\* servers of the other devices as they were: each under the same prefix or
\* service, in the sub-TLV of the same stable flag, with the same content.
C26_OthersUntouched ==
    RegisterCalled
        => EntriesOfOthers(tlvs, last.req.peer) = EntriesOfOthers(last.pre.tlvs, last.req.peer)

\* C26 happens: the register removed an entry of r from a sub-TLV that holds
\* the entry of another device.
C26_Witness ==
    /\ RegisterCalled
    /\ \E e \in EntriesOf(last.pre.tlvs, last.req.peer) \ EntriesOf(tlvs, last.req.peer) :
           \E o \in EntriesOfOthers(tlvs, last.req.peer) :
               o[1] = e[1] /\ o[2] = e[2] /\ o[3] = e[3]

\* C26 happens for a register that failed: it reported NoBufs after it had
\* removed an entry of r, and the registry holds another device's.
C26_Failed ==
    /\ RegisterCalled /\ last.err = ErrNoBufs
    /\ EntriesOf(last.pre.tlvs, last.req.peer) \ EntriesOf(tlvs, last.req.peer) # {}
    /\ EntriesOfOthers(tlvs, last.req.peer) # {}

\* The entries and servers of regs whose RLOC16 matches rloc under mode.
Matching(regs, rloc, mode) == {e \in AllEntries(regs) : RlocMatch(Rloc16Of(e), rloc, mode)}

\* The TLV of regs at i holds entries or servers, all matching rloc under
\* mode, and no Context TLV: the sweep removes it.
Emptied(regs, i, rloc, mode) ==
    /\ i \in 1..Len(regs)
    /\ regs[i].type \in {"Prefix", "Service"}
    /\ FindSubTlv(regs[i].subs, "Context") = 0
    /\ \A j \in 1..Len(regs[i].subs) :
           EntriesIn(regs[i].key, regs[i].subs[j]) \subseteq Matching(regs, rloc, mode)

\* C27: after RemoveBorderRouter(r, mode) the registry holds no Has Route
\* entry, Border Router entry or Server TLV whose RLOC16 matches r under
\* mode.
C27_NoneLeft ==
    last.op = "RemoveBorderRouter"
        => Matching(tlvs, last.req.rloc, last.req.mode) = {}

\* C27 happens: the sweep removed two TLVs of the registry that follow one
\* another.
C27_Witness ==
    /\ last.op = "RemoveBorderRouter"
    /\ \E i \in 1..Len(last.pre.tlvs) :
           /\ Emptied(last.pre.tlvs, i, last.req.rloc, last.req.mode)
           /\ Emptied(last.pre.tlvs, i + 1, last.req.rloc, last.req.mode)
    /\ Len(tlvs) + 2 <= Len(last.pre.tlvs)

\* C27 happens within a prefix: the sweep removed two sub-TLVs that follow
\* one another.
C27_SubTlvs ==
    /\ last.op = "RemoveBorderRouter"
    /\ \E i \in 1..Len(last.pre.tlvs) :
           /\ last.pre.tlvs[i].type = "Prefix"
           /\ \E j \in 1..(Len(last.pre.tlvs[i].subs) - 1) :
                  /\ last.pre.tlvs[i].subs[j].type = "HasRoute"
                  /\ last.pre.tlvs[i].subs[j + 1].type = "BorderRouter"
                  /\ EntriesIn(last.pre.tlvs[i].key, last.pre.tlvs[i].subs[j])
                       \cup EntriesIn(last.pre.tlvs[i].key, last.pre.tlvs[i].subs[j + 1])
                         \subseteq Matching(last.pre.tlvs, last.req.rloc, last.req.mode)

\* The places of the sub-TLVs of a submission, in the order in which the
\* register adds them, and the entry or server at a place.
Places(net) == UNION { {<<i, j>> : j \in 1..Len(net[i].subs)} : i \in 1..Len(net) }

Before(p, q) == p[1] < q[1] \/ (p[1] = q[1] /\ p[2] < q[2])

EntryAt(net, p) ==
    CHOOSE e \in EntriesIn(net[p[1]].key, net[p[1]].subs[p[2]]) : TRUE

\* The stable entries and servers of regs.
StableEntries(regs) == {e \in AllEntries(regs) : e[3]}

\* The register observed failed with NoBufs.
FailedPartWay == Registered /\ last.err = ErrNoBufs

\* C28: when a register fails with NoBufs, the entries of r it removed stay
\* removed and the submitted entries before the one that found no room are
\* stored, while none after it is added; the version advances exactly when
\* an entry was inserted or removed, the stable version exactly when a
\* stable one was; no Prefix or Service TLV is left without sub-TLVs.
C28_PartialCommit ==
    FailedPartWay =>
        /\ EntriesOf(tlvs, last.req.peer) \subseteq AllEntries(last.req.net)
        /\ \E p \in Places(last.req.net) :
               /\ EntryAt(last.req.net, p) \notin AllEntries(tlvs)
               /\ \A q \in Places(last.req.net) :
                      /\ Before(q, p) => EntryAt(last.req.net, q) \in AllEntries(tlvs)
                      /\ (Before(p, q) /\ EntryAt(last.req.net, q) \in AllEntries(tlvs))
                             => EntryAt(last.req.net, q) \in AllEntries(last.pre.tlvs)
        /\ version = (last.pre.version
                        + (IF AllEntries(tlvs) # AllEntries(last.pre.tlvs) THEN 1 ELSE 0)) % kUint8
        /\ stableVersion = (last.pre.stableVersion
                              + (IF StableEntries(tlvs) # StableEntries(last.pre.tlvs)
                                 THEN 1 ELSE 0)) % kUint8
        /\ \A i \in 1..Len(tlvs) :
               tlvs[i].type \in {"Prefix", "Service"} => tlvs[i].subs # <<>>

\* C28 happens: the register removed an entry of r, inserted a submitted
\* entry, and then found no room for the next one.
C28_Witness ==
    /\ FailedPartWay
    /\ EntriesOf(last.pre.tlvs, last.req.peer) \ EntriesOf(tlvs, last.req.peer) # {}
    /\ EntriesOf(tlvs, last.req.peer) \ EntriesOf(last.pre.tlvs, last.req.peer) # {}

\* C28 happens without a change: the first insertion found no room and the
\* counters stay.
C28_NothingDone ==
    /\ FailedPartWay
    /\ tlvs = last.pre.tlvs /\ version = last.pre.version

\* The state of the Leader is what the Notifier found at the signal.
AsNotified == Notified([tlvs |-> tlvs, ctx |-> ctx, version |-> version,
                        stableVersion |-> stableVersion])

\* C29: a register or a RemoveBorderRouter advances the counters and
\* signals the Notifier at most once, and changes nothing after the signal:
\* the Notifier finds the registry, the context ids and the counters as the
\* call leaves them; without a signal the counters stay.
C29_SignalledOnceAtEnd ==
    (RegisterCalled \/ last.op = "RemoveBorderRouter") =>
        /\ last.signals <= 1
        /\ last.signals = 1 => last.notified = AsNotified
        /\ last.signals = 0 => /\ version = last.pre.version
                               /\ stableVersion = last.pre.stableVersion

\* C29 happens: a register removed an entry with its sweep, added another,
\* and signalled.
C29_Witness ==
    /\ RegisterCalled /\ last.signals = 1
    /\ EntriesOf(last.pre.tlvs, last.req.peer) \ EntriesOf(tlvs, last.req.peer) # {}
    /\ EntriesOf(tlvs, last.req.peer) \ EntriesOf(last.pre.tlvs, last.req.peer) # {}

\* C29 happens for RemoveBorderRouter: it removed two TLVs and signalled.
C29_Removed ==
    /\ last.op = "RemoveBorderRouter" /\ last.signals = 1
    /\ Len(tlvs) + 2 <= Len(last.pre.tlvs)

(***************************************************************************)
(* C30: the context ids after the Network Data is restored                 *)
(***************************************************************************)
\* The Prefix TLVs of the registry that hold a Context TLV.
WithContext(regs) ==
    {i \in 1..Len(regs) : regs[i].type = "Prefix" /\ FindSubTlv(regs[i].subs, "Context") # 0}

\* The context id is in use when compress is set; else it waits for its
\* removal at now + the reuse delay and the timer fires no later.
Synchronized(context) ==
    IF context.compress THEN IsInUse(ctx, context.cid)
    ELSE /\ ctx[context.cid] = RemoveTimeFrom(now)
         /\ timer.running
         /\ ~TimeLess(ctx[context.cid], timer.fire)

\* The sweep of the call removed the last Border Router sub-TLV of a prefix
\* that keeps its Context TLV.
SweptLastBorderRouter ==
    \E i \in WithContext(tlvs) :
        /\ FindSubTlv(tlvs[i].subs, "BorderRouter") = 0
        /\ \E j \in 1..Len(last.req.restored) :
               /\ last.req.restored[j].type = "Prefix"
               /\ last.req.restored[j].key = tlvs[i].key
               /\ FindSubTlv(last.req.restored[j].subs, "BorderRouter") # 0

\* C30: after HandleNetworkDataRestoredAfterReset returns, the context id of
\* the Context TLV of every Prefix TLV is in use if the compress flag is
\* set, and waits for its removal at now + the reuse delay, with the timer
\* armed no later, if the flag is clear; also for the prefixes whose last
\* Border Router the sweep of the call removed.
C30_ContextIdsSynchronized ==
    last.op = "NetworkDataRestored" =>
        \A i \in WithContext(tlvs) : Synchronized(ContextOf(tlvs, i))

\* C30 for the restored registries other than ServiceFirst.
C30_SynchronizedElsewhere ==
    (last.op = "NetworkDataRestored" /\ last.req.restored # ServiceFirst) =>
        \A i \in WithContext(tlvs) : Synchronized(ContextOf(tlvs, i))

\* The sweep removed the last Border Router of a prefix and its context id
\* waits for its removal.
C30_Swept ==
    /\ last.op = "NetworkDataRestored"
    /\ SweptLastBorderRouter
    /\ \A i \in WithContext(tlvs) : Synchronized(ContextOf(tlvs, i))

\* The restored registry is ServiceFirst, router 3 is not allocated, and
\* the context id of the prefix is in use though compress is clear.
C30_StaleCopyRead ==
    /\ last.op = "NetworkDataRestored"
    /\ last.req.restored = ServiceFirst
    /\ \E i \in WithContext(tlvs) :
           ~ContextOf(tlvs, i).compress /\ IsInUse(ctx, ContextOf(tlvs, i).cid)

(***************************************************************************)
(* C31: the first loop of HandleNetworkDataRestoredAfterReset terminates   *)
(***************************************************************************)
RECURSIVE CountEntriesFrom(_, _)
\* The number of entries of the registry from TLV i on: the Has Route and
\* Border Router entries and the Server TLVs.
CountEntriesFrom(regs, i) ==
    IF i > Len(regs) THEN 0
    ELSE SumSeq([j \in 1..Len(regs[i].subs) |->
                    IF regs[i].type = "Service" THEN 1
                    ELSE IF regs[i].type = "Prefix"
                    THEN Len(regs[i].subs[j].entries) ELSE 0])
             + CountEntriesFrom(regs, i + 1)

CountEntries(regs) == CountEntriesFrom(regs, 1)

\* Every restart so far has removed at least one entry.
RestartsPaid ==
    InLoop => last.req.restarts + CountEntries(tlvs) <= CountEntries(last.req.restored)

\* C31: the first loop of HandleNetworkDataRestoredAfterReset terminates for
\* every restored registry and every router table: every restart follows a
\* RemoveRloc that removes at least one entry, so there are no more restarts
\* than the restored registry has entries, and the call returns.
C31_LoopTerminates ==
    /\ []RestartsPaid
    /\ [][(InLoop /\ InLoop') => CountEntries(tlvs') < CountEntries(tlvs)]_vars
    /\ (InLoop ~> last.op = "NetworkDataRestored")

\* The loop has restarted three times and the call has returned.
C31_Witness ==
    /\ last.op = "NetworkDataRestored"
    /\ last.req.allocated = {}
    /\ CountEntries(last.req.restored) - CountEntries(tlvs) >= 4
    /\ Cardinality({RouterIdFromRloc16(GetServers(last.req.restored)[k]) :
                       k \in 1..Len(GetServers(last.req.restored))}) = 3

(***************************************************************************)
(* C32: ScheduleToRemove changes an id only when it is in use              *)
(***************************************************************************)
\* The prefixes of the registry regs that hold the context id and no Border
\* Router sub-TLV.
WithoutBorderRouter(regs, id) ==
    {i \in 1..Len(regs) :
        /\ regs[i].type = "Prefix"
        /\ regs[i].key \in PrefixesOf(regs, id)
        /\ FindSubTlv(regs[i].subs, "BorderRouter") = 0}

\* C32: ScheduleToRemove of a context id that is not in use (unallocated, or
\* waiting for its removal) changes neither the id nor the timer; so no call
\* moves the remove time of an id that waits for its removal, however often
\* RemoveRloc passes over its prefix.
C32_NeverPostponed ==
    /\ \A id \in ContextIdRange :
           ~IsInUse(ctx, id) => ScheduleToRemove(Self, id) = Self
    /\ last.op # "Idle" =>
           \A id \in ContextIdRange :
               (IsPendingRemove(last.pre.ctx, id) /\ IsPendingRemove(ctx, id))
                   => ctx[id] = last.pre.ctx[id]

\* RemoveRloc has passed, at a later time, over a prefix with no Border
\* Router whose context id waits for its removal.
C32_Witness ==
    /\ last.op = "RemoveBorderRouter"
    /\ \E id \in ContextIdRange :
           /\ IsPendingRemove(last.pre.ctx, id)
           /\ WithoutBorderRouter(last.pre.tlvs, id) # {}
           /\ WithoutBorderRouter(tlvs, id) # {}
           /\ ctx[id] # RemoveTimeFrom(now)
           /\ last.changed

(***************************************************************************)
(* C33: a Border Router registered while the context id waits              *)
(***************************************************************************)
\* The prefixes of the registry before the call whose context id waited for
\* its removal, the remove time not yet come, and that hold a Border Router
\* sub-TLV after the call.
ReRegistered ==
    {i \in WithContext(last.pre.tlvs) :
        /\ IsPendingRemove(last.pre.ctx, ContextOf(last.pre.tlvs, i).cid)
        /\ TimeLess(last.pre.now, last.pre.ctx[ContextOf(last.pre.tlvs, i).cid])
        /\ FindPrefix(tlvs, last.pre.tlvs[i].key) # 0
        /\ FindSubTlv(tlvs[FindPrefix(tlvs, last.pre.tlvs[i].key)].subs,
                      "BorderRouter") # 0}

\* The Context TLV of the prefix with the key, in the registry regs.
ContextOfKey(regs, key) == ContextOf(regs, FindPrefix(regs, key))

\* C33: when a Border Router is registered on a prefix whose context id
\* waits for its removal, the id is in use again and the Context TLV keeps
\* the id, with compress set; and a call of HandleTimer leaves every id in
\* use as it is, with the Context TLVs that hold it.
C33_InUseAgain ==
    /\ last.op # "Idle" =>
           \A i \in ReRegistered :
               /\ IsInUse(ctx, ContextOf(last.pre.tlvs, i).cid)
               /\ ContextOfKey(tlvs, last.pre.tlvs[i].key).cid
                      = ContextOf(last.pre.tlvs, i).cid
               /\ ContextOfKey(tlvs, last.pre.tlvs[i].key).compress
    /\ last.op = "HandleTimer" =>
           \A i \in WithContext(last.pre.tlvs) :
               IsInUse(last.pre.ctx, ContextOf(last.pre.tlvs, i).cid) =>
                   /\ IsInUse(ctx, ContextOf(last.pre.tlvs, i).cid)
                   /\ FindPrefix(tlvs, last.pre.tlvs[i].key) # 0
                   /\ tlvs[FindPrefix(tlvs, last.pre.tlvs[i].key)] = last.pre.tlvs[i]

\* A Border Router is registered on a prefix whose context id waits.
C33_Registered == last.op = "ServerData" /\ ReRegistered # {}

\* mTimer fires at the remove time of an id scheduled at StartTime, when no
\* id waits any more: the id of the restored prefix Prefix2, which held no
\* Border Router, is in use again, on a prefix with a Border Router.
C33_Witness ==
    /\ last.op = "HandleTimer"
    /\ ~waiting
    /\ last.pre.timer.fire = RemoveTimeFrom(StartTime)
    /\ \A id \in ContextIdRange : ~IsPendingRemove(last.pre.ctx, id)
    /\ \E i \in WithContext(tlvs) :
           /\ tlvs[i].key = Prefix2
           /\ IsInUse(ctx, ContextOf(tlvs, i).cid)
           /\ ContextOf(tlvs, i).cid = 3
           /\ ContextOf(tlvs, i).compress
           /\ FindSubTlv(tlvs[i].subs, "BorderRouter") # 0

(***************************************************************************)
(* C34: service ids                                                        *)
(***************************************************************************)
\* The Service TLVs of the registry regs, by place.
Services(regs) == {i \in 1..Len(regs) : regs[i].type = "Service"}

\* The Service TLVs the call has created: the registry before the call
\* held no Service TLV with the key and the id.
Created ==
    {i \in Services(tlvs) :
        \A k \in Services(last.pre.tlvs) :
            last.pre.tlvs[k].key # tlvs[i].key \/ last.pre.tlvs[k].id # tlvs[i].id}

\* C34: no two Service TLVs of the registry hold the same service id, and a
\* Service TLV that AddService has created holds the smallest id of 0..15
\* that no other Service TLV holds.
C34_SmallestFreeServiceId ==
    /\ \A i, k \in Services(tlvs) : tlvs[i].id = tlvs[k].id => i = k
    /\ (last.op \notin {"Idle", "NetworkDataRestored"}) =>
           \A i \in Created :
               /\ tlvs[i].id \in kMinServiceId..kMaxServiceId
               /\ \A id \in kMinServiceId..(tlvs[i].id - 1) :
                      FindServiceById(tlvs, id) # 0

\* A call has created a Service TLV with the id 0 while another Service TLV
\* holds the id 1: the id 0 had become free.
C34_Witness ==
    /\ last.op = "ServerData"
    /\ \E i \in Created :
           /\ tlvs[i].id = kMinServiceId
           /\ FindServiceById(tlvs, kMinServiceId + 1) # 0
           /\ FindServiceById(last.pre.tlvs, kMinServiceId + 1) # 0

\* A call has created a Service TLV with the id 1.
C34_Second ==
    last.op = "ServerData" /\ \E i \in Created : tlvs[i].id = kMinServiceId + 1

WrapTimes == {TimeAdd(TimeDiff(StartTime, U32(1)), d) : d \in 0..3}

WrapInit ==
    /\ tlvs = <<>>
    /\ version = InitialVersion
    /\ stableVersion = InitialStableVersion
    /\ ctx = ContextIdsClear
    /\ timer = TimerStopped
    /\ waiting = FALSE
    /\ role = "constructed"
    /\ now \in WrapTimes
    /\ last = Idle

WrapNext ==
    \/ Start(kStartingAsLeader)
    \/ \E req \in BorderRouterRequests : ServerData(req)
    \/ RemoveBorderRouterCall(RlocA, kMatchModeRloc16)
    \/ TimerFired
    \/ Tick
    \/ Return

WrapSpec == WrapInit /\ [][WrapNext]_vars

Sentinels == {U32(kUnallocated), U32(kInUse)}

\* The remove time ScheduleToRemove asks for: now + reuse delay modulo 2^32.
RequestedRemoveTime(time) == TimeAdd(time, SecToMsec(kReuseDelay))

\* A call that took the last border router from the prefix of an id that was
\* in use, so that ScheduleToRemove stored a remove time for it.
JustScheduled(id) ==
    /\ last.op \in {"ServerData", "RemoveBorderRouter"}
    /\ IsInUse(last.pre.ctx, id)
    /\ LostLastBorderRouter(id)
    /\ PrefixesOf(tlvs, id) # {}

\* C36: the three slot states stay disjoint under 32-bit time arithmetic.
\* Whatever now + reuse delay (mod 2^32) is, the sentinel values 0 and 1
\* included, the value SetRemoveTime stores is neither sentinel: it is the
\* requested time, or 2 when the requested time is 0 or 1.  A slot that was
\* just scheduled for removal is therefore read back as neither Unallocated
\* nor InUse, and the timer handler releases it once its time is reached.
C36_SentinelsSkipped ==
    /\ SkipSentinels(RequestedRemoveTime(now)) \notin Sentinels
    /\ \A id \in kMinId..kMaxId :
           JustScheduled(id) =>
               /\ ctx[id] \notin Sentinels
               /\ ~IsUnallocated(ctx, id) /\ ~IsInUse(ctx, id)
               /\ ctx[id] = IF RequestedRemoveTime(last.pre.now) \in Sentinels
                            THEN U32(2)
                            ELSE RequestedRemoveTime(last.pre.now)
    /\ \A id \in kMinId..kMaxId :
           (/\ last.op = "HandleTimer"
            /\ last.pre.ctx[id] \notin Sentinels
            /\ TimeGeq(last.pre.now, last.pre.ctx[id])) =>
               IsUnallocated(ctx, id)

\* C36 witness: an id was scheduled for removal when now + reuse delay was
\* exactly the InUse sentinel, and its slot holds 2.
C36_Witness ==
    \E id \in kMinId..kMaxId :
        /\ JustScheduled(id)
        /\ RequestedRemoveTime(last.pre.now) = U32(kInUse)
        /\ ctx[id] = U32(2)

\* C36: the same at the Unallocated sentinel.
C36_AtUnallocated ==
    \E id \in kMinId..kMaxId :
        /\ JustScheduled(id)
        /\ RequestedRemoveTime(last.pre.now) = U32(kUnallocated)
        /\ ctx[id] = U32(2)

\* C36: a slot stored at a skipped sentinel is released by the timer handler.
C36_ReadBack ==
    \E id \in kMinId..kMaxId :
        /\ last.op = "HandleTimer"
        /\ last.pre.ctx[id] = U32(2)
        /\ IsUnallocated(ctx, id)

====
